---- MODULE Spec2Model ----
(***************************************************************************)
(* Model of the autonomous code-evolution pipeline of openclaw-sidex-kit:  *)
(* InboxCollector, ProposalJudge, CodePlanner, CodeWriter and the          *)
(* EvolutionDaemon that sequences them.                                    *)
(*                                                                         *)
(* A file path is the sequence of its '/'-separated segments, so           *)
(* 'core//x.js' is <<"core", "", "x.js">> and '' is << >>.  A file content *)
(* is a token; the operators below say which tokens are dangerous, blank,  *)
(* oversized or missing.                                                   *)
(***************************************************************************)
EXTENDS Integers, Sequences, FiniteSets, TLC

VARIABLES
    files,            \* working tree: resolved path -> content or Absent
    backups,          \* backup directory of the writer's current run
    appliedChanges,   \* CodeWriter._appliedChanges
    lastChanges,      \* history: the changes of the plan the last apply() was given
    lastApply,        \* what the last apply() returned
    lastRollback,     \* what the last rollback() returned
    preRun,           \* history: the working tree when the last apply() began
    wPhase,           \* history: "idle" | "applied" | "rolledBack"
    runs,             \* history: the number of apply() calls so far
    jInput,           \* the Oracle's answer to the judge's prompt
    jOutput,          \* what ProposalJudge.evaluate() returned for it
    pInput,           \* the Oracle's answer to the planner's prompt
    pOutput,          \* what CodePlanner.plan() returned for it
    queue,            \* the local proposals file: a sequence of proposals
    processed,        \* InboxCollector._processed: id -> outcome or "none"
    processedFile,    \* the processed-state file on disk
    now,              \* the clock, in days
    marks,            \* history: markProcessed() calls per proposal id
    lastBatch,        \* history: what the last collect() returned
    returnedMarked,   \* history: a collect() returned an id marked before it
    lastFetch,        \* history: the issue fetch of the collect() just returned
    running,          \* EvolutionDaemon._running
    timerRef,         \* EvolutionDaemon._timer: a timer handle, or 0 for null
    intervalTimers,   \* the interval timers that are armed
    dailyReset,       \* EvolutionDaemon._dailyReset: a handle, or 0 for null
    resetTimers,      \* the midnight timeouts that are armed
    dailyCount,       \* EvolutionDaemon._dailyCount
    threads,          \* the _cycle() executions in flight, each at an await
    log,              \* the entries of the audit log, their order and number left out
    events,           \* history: calls and timer events so far
    commitsToday,     \* history: successful commits since the last midnight
    started,          \* history: _processProposal() starts per proposal id
    written,          \* history: the evaluations of the proposals apply() wrote files for
    lastPlan,         \* history: valid and plan of the last result of planner.plan()
    directCommit,     \* config.directCommit of the committer
    branch,           \* the branch checked out in the repository
    lastRun,          \* history: the calls the last _processProposal() made after
                      \* planning, and what they returned
    lastLogged,       \* per proposal id, the event of its last entry in the audit log
    vInput,           \* the changes given to validate() and what its checks find
    vOutput,          \* what Validator.validate() returned for them
    initialBalance,   \* SurvivalManager.initialBalance
    currentBalance,   \* SurvivalManager.currentBalance
    state,            \* SurvivalManager.state
    exited,           \* the process has ended with process.exit(0)
    streak            \* history: the last calls of updateVitalSigns() in a row
                      \* that saw the zone of the last one

writerVars == <<files, backups, appliedChanges, lastChanges, lastApply, lastRollback, preRun,
                wPhase, runs>>

pureVars == <<jInput, jOutput, pInput, pOutput>>

collectorVars == <<queue, processed, processedFile, now, marks, lastBatch, returnedMarked,
                   lastFetch>>

daemonVars == <<running, timerRef, intervalTimers, dailyReset, resetTimers, dailyCount,
                threads, log, events, commitsToday, started, written, lastPlan, directCommit,
                lastRun, branch, lastLogged>>

\* The validator and the survival manager, each on its own.
sideVars == <<vInput, vOutput, initialBalance, currentBalance, state, exited, streak>>

vars == <<writerVars, pureVars, collectorVars, daemonVars, sideVars>>

-----------------------------------------------------------------------------
(* Paths *)

Absent == "<absent>"
NoContent == "<undefined>"

\* String.prototype.startsWith on one segment: the segments of the model
\* that begin with the given text.
SegStartsWith(seg, text) ==
    \/ seg = text
    \/ text = ".env" /\ seg = ".env.local"
    \/ text = "sdk.js" /\ seg = "sdk.json"

\* filePath.startsWith(prefix).  A prefix 'a/b/' is <<"a","b","">>: the path
\* must have the segments a, b and at least one more.  A prefix 'a' without a
\* trailing slash matches on the text of the first segment.
StartsWith(filePath, prefix) ==
    IF prefix[Len(prefix)] = ""
    THEN /\ Len(filePath) >= Len(prefix)
         /\ \A i \in 1..(Len(prefix) - 1) : filePath[i] = prefix[i]
    ELSE /\ Len(filePath) >= Len(prefix)
         /\ \A i \in 1..(Len(prefix) - 1) : filePath[i] = prefix[i]
         /\ SegStartsWith(filePath[Len(prefix)], prefix[Len(prefix)])

allowedPaths == { <<"core", "">>, <<"pipelines", "">>, <<"sdk.js">>, <<"types.d.ts">> }

forbiddenPaths == { <<".env">>, <<".git", "">>, <<"node_modules", "">>,
                    <<"package-lock.json">>, <<"core", "evolution", "">> }

\* filePath.includes('..')
IncludesDotDot(filePath) == \E i \in 1..Len(filePath) : filePath[i] = ".."

RECURSIVE NormalizeFrom(_, _, _)
NormalizeFrom(filePath, i, acc) ==
    IF i > Len(filePath) THEN acc
    ELSE LET seg == filePath[i] IN
         IF seg = "" \/ seg = "." THEN NormalizeFrom(filePath, i + 1, acc)
         ELSE IF seg = ".." /\ Len(acc) > 0 /\ acc[Len(acc)] # ".."
              THEN NormalizeFrom(filePath, i + 1, SubSeq(acc, 1, Len(acc) - 1))
              ELSE NormalizeFrom(filePath, i + 1, Append(acc, seg))

\* path.join(projectRoot, filePath), relative to the project root: empty and
\* '.' segments dropped, '..' resolved.
Resolve(filePath) == NormalizeFrom(filePath, 1, << >>)

-----------------------------------------------------------------------------
(* Contents *)

maxFileSize == 51200

\* Buffer.byteLength(content)
ByteLength(content) == IF content = "huge" THEN maxFileSize + 1 ELSE Len(content)

\* !content
Falsy(content) == content = "" \/ content = NoContent

\* content.trim().length === 0
Blank(content) == content = "" \/ content = "  "

\* One of CodePlanner's dangerous patterns matches the content.
Dangerous(content) == content = "eval(x)"

-----------------------------------------------------------------------------
(* CodeWriter *)

WriterValidatePathMissingDeny(filePath) ==
    IF filePath = << >> THEN "Empty file path"
    ELSE IF IncludesDotDot(filePath) THEN "Path traversal detected"
    ELSE IF ~\E a \in allowedPaths : StartsWith(filePath, a) THEN "Path not in allowlist"
    ELSE "ok"

\* CodeWriter._validatePath: "ok" stands for null.
WriterValidatePath(filePath) ==
    IF filePath = << >> THEN "Empty file path"
    ELSE IF IncludesDotDot(filePath) THEN "Path traversal detected"
    ELSE IF \E f \in forbiddenPaths : StartsWith(filePath, f) THEN "Forbidden path"
    ELSE IF ~\E a \in allowedPaths : StartsWith(filePath, a) THEN "Path not in allowlist"
    ELSE "ok"

\* The writer's state while apply() or rollback() runs.
WState(f, b, a, e) == [files |-> f, backups |-> b, applied |-> a, errors |-> e]

\* _backupFile: copy the file into the run's backup directory.
BackupFile(st, abs) == [st EXCEPT !.backups[abs] = st.files[abs]]

\* One iteration of apply()'s loop.
ApplyChange(st, change) ==
    LET pathError == WriterValidatePath(change.filePath)
        abs == Resolve(change.filePath)
        record == [action |-> change.action, filePath |-> change.filePath]
    IN
    IF pathError # "ok" THEN [st EXCEPT !.errors = Append(@, pathError)]
    ELSE IF ~Falsy(change.content) /\ ByteLength(change.content) > maxFileSize
    THEN [st EXCEPT !.errors = Append(@, "exceeds max size")]
    ELSE IF change.action \in {"modify", "create"}
    THEN LET st1 == IF st.files[abs] # Absent THEN BackupFile(st, abs) ELSE st IN
         IF change.content = NoContent
         THEN \* writeFileSync(path, undefined) throws: caught by the loop
              [st1 EXCEPT !.errors = Append(@, "Failed to apply")]
         ELSE [st1 EXCEPT !.files[abs] = change.content,
                          !.applied = Append(@, record)]
    ELSE [st EXCEPT !.errors = Append(@, "Unknown action")]

RECURSIVE ApplyLoop(_, _, _)
ApplyLoop(st, changes, i) ==
    IF i > Len(changes) THEN st
    ELSE ApplyLoop(ApplyChange(st, changes[i]), changes, i + 1)

NoBackups == [p \in DOMAIN files |-> Absent]

\* apply(plan): the writer's state after it, errors included.  A plan with
\* no changes returns at once and leaves _appliedChanges as it was.
ApplyPlan(f, b, a, changes) ==
    IF Len(changes) = 0
    THEN WState(f, b, a, <<"No changes in plan">>)
    ELSE ApplyLoop(WState(f, NoBackups, << >>, << >>), changes, 1)

\* What apply() returns.
ApplyResult(st, changes) ==
    [success |-> Len(changes) > 0 /\ st.errors = << >> /\ Len(st.applied) > 0,
     applied |-> IF Len(changes) = 0 THEN << >> ELSE st.applied,
     errors  |-> st.errors]

\* One iteration of rollback()'s loop; rolled counts the files restored.
RollbackChange(st, change) ==
    LET abs == Resolve(change.filePath) IN
    IF change.action = "create"
    THEN IF st.files[abs] # Absent
         THEN [st EXCEPT !.files[abs] = Absent, !.rolled = @ + 1]
         ELSE st
    ELSE IF st.backups[abs] # Absent
         THEN [st EXCEPT !.files[abs] = st.backups[abs], !.rolled = @ + 1]
         ELSE [st EXCEPT !.errors = Append(@, "No backup found")]

\* The loop of rollback() over _appliedChanges.reverse().
RECURSIVE RollbackLoop(_, _, _)
RollbackLoop(st, applied, i) ==
    IF i < 1 THEN st
    ELSE RollbackLoop(RollbackChange(st, applied[i]), applied, i - 1)

RollbackAllKeepsList(f, b, a) ==
    LET st == RollbackLoop([files |-> f, backups |-> b, rolled |-> 0, errors |-> << >>],
                           a, Len(a))
    IN [files |-> st.files, backups |-> st.backups, applied |-> a,
        rolled |-> st.rolled, errors |-> st.errors]

\* rollback(): the state after it; _appliedChanges is cleared.
RollbackAll(f, b, a) ==
    LET st == RollbackLoop([files |-> f, backups |-> b, rolled |-> 0, errors |-> << >>],
                           a, Len(a))
    IN [files |-> st.files, backups |-> st.backups, applied |-> << >>,
        rolled |-> st.rolled, errors |-> st.errors]

-----------------------------------------------------------------------------
(* ProposalJudge *)

approvalThreshold == 7
safetyMinimum == 8

\* A score as JavaScript holds it: a number, or NaN.  The Oracle's raw score
\* may also be missing (undefined or null).
Num(n) == [kind |-> "num", n |-> n]
NaN == [kind |-> "nan", n |-> 0]
Missing == [kind |-> "missing", n |-> 0]

\* a < b for a score a and a number b: false when a is NaN.
Lt(a, b) == a.kind = "num" /\ a.n < b

\* a >= b: false when a is NaN.
Ge(a, b) == a.kind = "num" /\ a.n >= b

ClampNoUpper(raw) ==
    IF raw.kind = "missing" THEN Num(0)
    ELSE IF raw.kind = "nan" THEN NaN
    ELSE IF raw.n < 0 THEN Num(0) ELSE Num(raw.n)

\* Math.max(0, Math.min(10, raw ?? 0)): NaN stays NaN.
Clamp(raw) ==
    IF raw.kind = "missing" THEN Num(0)
    ELSE IF raw.kind = "nan" THEN NaN
    ELSE IF raw.n > 10 THEN Num(10)
    ELSE IF raw.n < 0 THEN Num(0) ELSE Num(raw.n)

\* relevance + value + safety + feasibility, four times avgScore.
ScoreSum(scores) ==
    IF \E k \in DOMAIN scores : scores[k].kind = "nan" THEN NaN
    ELSE Num(scores.relevance.n + scores.value.n + scores.safety.n + scores.feasibility.n)

ZeroScores == [relevance |-> Num(0), value |-> Num(0), safety |-> Num(0),
               feasibility |-> Num(0)]

\* The evaluation both catch blocks build.
FailedEvaluation(why) ==
    [verdict |-> "REJECTED", scores |-> ZeroScores, sum4 |-> Num(0), summary |-> why]

\* _parseEvaluation: resp.kind "garbage" is a response JSON.parse rejects.
ParseEvaluationKeepsVerdict(resp) ==
    IF resp.kind = "garbage" THEN FailedEvaluation("Parse error")
    ELSE LET scores == [relevance |-> Clamp(resp.relevance), value |-> Clamp(resp.value),
                        safety |-> Clamp(resp.safety),
                        feasibility |-> Clamp(resp.feasibility)]
         IN [verdict |-> resp.verdict, scores |-> scores, sum4 |-> ScoreSum(scores),
             summary |-> "parsed"]

\* _parseEvaluation: the evaluation before the overrides.  A response of kind
\* "garbage" holds no JSON object that parses.
ParseEvaluation(resp) ==
    IF resp.kind = "garbage" THEN FailedEvaluation("Parse error")
    ELSE LET scores == [relevance |-> Clamp(resp.relevance), value |-> Clamp(resp.value),
                        safety |-> Clamp(resp.safety),
                        feasibility |-> Clamp(resp.feasibility)]
         IN [verdict |-> IF resp.verdict \in {"APPROVED", "REJECTED", "NEEDS_REVIEW"}
                         THEN resp.verdict ELSE "NEEDS_REVIEW",
             scores |-> scores, sum4 |-> ScoreSum(scores), summary |-> "parsed"]

EvaluateFailOpen(resp) ==
    IF resp.kind = "throw"
    THEN [FailedEvaluation("Evaluation error") EXCEPT !.verdict = "NEEDS_REVIEW"]
    ELSE LET e == ParseEvaluation(resp) IN
         IF Lt(e.scores.safety, safetyMinimum)
         THEN [e EXCEPT !.verdict = "REJECTED", !.summary = "SAFETY BLOCK"]
         ELSE IF Lt(e.sum4, 4 * approvalThreshold) /\ e.verdict = "APPROVED"
         THEN [e EXCEPT !.verdict = "NEEDS_REVIEW", !.summary = "THRESHOLD"]
         ELSE e

EvaluateNoSafetyGate(resp) ==
    IF resp.kind = "throw" THEN FailedEvaluation("Evaluation error")
    ELSE LET e == ParseEvaluation(resp) IN
         IF Lt(e.sum4, 4 * approvalThreshold) /\ e.verdict = "APPROVED"
         THEN [e EXCEPT !.verdict = "NEEDS_REVIEW", !.summary = "THRESHOLD"]
         ELSE e

EvaluateNoThresholdGate(resp) ==
    IF resp.kind = "throw" THEN FailedEvaluation("Evaluation error")
    ELSE LET e == ParseEvaluation(resp) IN
         IF Lt(e.scores.safety, safetyMinimum)
         THEN [e EXCEPT !.verdict = "REJECTED", !.summary = "SAFETY BLOCK"]
         ELSE e

\* evaluate(proposal), given what llm.chat() did: resp.kind "throw" is a
\* failed or timed-out call.
Evaluate(resp) ==
    IF resp.kind = "throw" THEN FailedEvaluation("Evaluation error")
    ELSE LET e == ParseEvaluation(resp) IN
         IF Lt(e.scores.safety, safetyMinimum)
         THEN [e EXCEPT !.verdict = "REJECTED", !.summary = "SAFETY BLOCK"]
         ELSE IF Lt(e.sum4, 4 * approvalThreshold) /\ e.verdict = "APPROVED"
         THEN [e EXCEPT !.verdict = "NEEDS_REVIEW", !.summary = "THRESHOLD"]
         ELSE e

-----------------------------------------------------------------------------
(* CodePlanner *)

\* _parsePlan: the changes of the parsed plan.  "garbage" parses to a plan
\* with no changes; "nochanges" is a JSON plan without a changes array.
ParsePlan(resp) == IF resp.kind = "json" THEN resp.changes ELSE << >>

\* The errors _validatePlan's loop pushes for one change (no path matches
\* two of the forbidden prefixes, so the first check pushes at most one).
ChangeErrors(change) ==
    LET fp == change.filePath IN
    (IF fp # << >> /\ \E f \in forbiddenPaths : StartsWith(fp, f)
       THEN <<"Forbidden path">> ELSE << >>)
    \o (IF fp # << >> /\ ~\E a \in allowedPaths : StartsWith(fp, a)
       THEN <<"Path not in allowlist">> ELSE << >>)
    \o (IF ~Falsy(change.content) /\ Dangerous(change.content)
       THEN <<"Dangerous pattern detected">> ELSE << >>)
    \o (IF change.action = "create" /\ (Falsy(change.content) \/ Blank(change.content))
       THEN <<"Create action has no content">> ELSE << >>)

RECURSIVE AllChangeErrors(_, _)
AllChangeErrors(changes, i) ==
    IF i > Len(changes) THEN << >>
    ELSE ChangeErrors(changes[i]) \o AllChangeErrors(changes, i + 1)

maxChanges == 10

\* The message _validatePlan pushes for a plan of n > 10 changes.
TooManyChanges(n) == "Too many changes (" \o ToString(n) \o "). Maximum is 10 per proposal."

ValidatePlanNoPathCheck(resp) ==
    IF resp.kind = "nochanges" THEN <<"Plan has no changes array">>
    ELSE LET changes == ParsePlan(resp) IN
         IF Len(changes) = 0 THEN <<"Plan has zero changes">>
         ELSE IF Len(changes) > maxChanges THEN <<TooManyChanges(Len(changes))>> ELSE << >>

ValidatePlanNoCountCheck(resp) ==
    IF resp.kind = "nochanges" THEN <<"Plan has no changes array">>
    ELSE LET changes == ParsePlan(resp) IN
         IF Len(changes) = 0 THEN <<"Plan has zero changes">>
         ELSE AllChangeErrors(changes, 1)

\* _validatePlan(_parsePlan(response)): the errors list.
ValidatePlan(resp) ==
    IF resp.kind = "nochanges" THEN <<"Plan has no changes array">>
    ELSE LET changes == ParsePlan(resp) IN
         IF Len(changes) = 0 THEN <<"Plan has zero changes">>
         ELSE (IF Len(changes) > maxChanges THEN <<TooManyChanges(Len(changes))>> ELSE << >>)
              \o AllChangeErrors(changes, 1)

\* plan(proposal, evaluation), given what llm.chat() did.  isNull says the
\* returned plan is null (the call threw); changes are the plan's changes.
Plan(resp) ==
    IF resp.kind = "throw"
    THEN [isNull |-> TRUE, changes |-> << >>, valid |-> FALSE,
          errors |-> <<"Planning failed">>]
    ELSE LET errors == ValidatePlan(resp) IN
         [isNull |-> FALSE, changes |-> ParsePlan(resp), valid |-> errors = << >>,
          errors |-> errors]

-----------------------------------------------------------------------------
(* InboxCollector *)

maxAgeDays == 3
maxPerCycle == 2

Proposal(id, ts) == [id |-> id, ts |-> ts]

\* The issues the tracker lists, newest first.
GitHubIssues == << Proposal("gh-issue-1", 0) >>

\* The ids addProposal() generates, in order of generation.
LocalIds == << "local-1", "local-2" >>

ProposalIds == { GitHubIssues[i].id : i \in 1..Len(GitHubIssues) }
               \cup { LocalIds[i] : i \in 1..Len(LocalIds) }

\* An empty processed map.
NoneProcessed == [id \in ProposalIds |-> "none"]

Take(s, n) == IF Len(s) <= n THEN s ELSE SubSeq(s, 1, n)

\* The local proposals file is the sequence of the entries written in it;
\* Garbage stands for text that makes the file invalid JSON (a write cut
\* short, an edit by hand).
Garbage == Proposal("<garbage>", 0)

\* The entries in the text of the file.
Entries(file) == SelectSeq(file, LAMBDA p : p # Garbage)

\* _readLocalProposals(): the entries, or none when JSON.parse throws.
ReadLocalProposals(file) ==
    IF \E i \in 1..Len(file) : file[i] = Garbage THEN << >> ELSE file

CollectNoProcessedFilter(issues, local, proc, time) ==
    LET recent == SelectSeq(issues \o ReadLocalProposals(local),
                            LAMBDA p : p.ts > time - maxAgeDays)
    IN Take(recent, maxPerCycle)

CollectIssuesOnly(issues, local, proc, time) ==
    LET fresh == SelectSeq(issues, LAMBDA p : proc[p.id] = "none")
        recent == SelectSeq(fresh, LAMBDA p : p.ts > time - maxAgeDays)
    IN Take(recent, maxPerCycle)

\* collect(), given what the issue fetch returned (<< >> when it failed or
\* the tracker is not configured) and the local proposals file.
Collect(issues, local, proc, time) ==
    LET fresh == SelectSeq(issues \o ReadLocalProposals(local),
                           LAMBDA p : proc[p.id] = "none")
        recent == SelectSeq(fresh, LAMBDA p : p.ts > time - maxAgeDays)
    IN Take(recent, maxPerCycle)

CollectFromFetchAborts(fetched, local, proc, time) ==
    IF fetched
    THEN [threw |-> FALSE, batch |-> Collect(GitHubIssues, local, proc, time)]
    ELSE [threw |-> TRUE, batch |-> << >>]

\* collect() with the tracker configured: whether it threw, and the batch it
\* returned.  fetched says whether _fetchGitHubIssues() returned the issues
\* or threw.
CollectFrom(fetched, local, proc, time) ==
    [threw |-> FALSE,
     batch |-> Collect(IF fetched THEN GitHubIssues ELSE << >>, local, proc, time)]

\* _saveProcessed(): the file after it.  The write may fail; the error is
\* caught and logged, and the file stays as it was.
SaveProcessed(proc, file, saved) == IF saved THEN proc ELSE file

\* _loadProcessed(): the map a new collector starts with.
LoadProcessed(file) == file

\* addProposal(): the local file after it.  The new entry is pushed on the
\* parsed array, or on an empty array when JSON.parse throws, and the file
\* is written anew.
AddProposal(local, time) ==
    Append(ReadLocalProposals(local), Proposal(LocalIds[Len(Entries(local)) + 1], time))

-----------------------------------------------------------------------------
(* EvolutionDaemon *)

\* config.maxProposalsPerDay of the daemon under study.
maxProposalsPerDay == 1

\* The _cycle() executions the model follows at once.
MaxThreads == 2

\* A _cycle() execution: where it is suspended (pc), whether start() awaits
\* it and then arms the interval timer `handle`, the batch it collected, the
\* index of the proposal in _processProposal() and that proposal's evaluation.
Thread(pc, fromStart, handle, batch, idx, eval) ==
    [pc |-> pc, fromStart |-> fromStart, handle |-> handle, batch |-> batch, idx |-> idx,
     eval |-> eval]

NoEvaluation == [verdict |-> "none", scores |-> ZeroScores, sum4 |-> Num(0),
                 summary |-> "none"]

\* No result of planner.plan() yet.
NoPlan == [valid |-> FALSE, isNull |-> TRUE]

\* Nothing called after planning: apply() (applyCalled, and the length of
\* the applied list it returned), validate() ("none", "passed" or "failed"),
\* commit() ("none", "success" or "fail", and the step of it that failed),
\* rollback(); and whether stop() had been called when the planner answered.
\* Of apply(), also the applied list and the number of errors it returned; the
\* list validate() was called with, the files commit() ran git add for, and
\* the list rollback() went through.
NoRun == [applyCalled |-> FALSE, applied |-> 0, validator |-> "none", commit |-> "none",
          failed |-> "none", rolledBack |-> FALSE, stopped |-> FALSE,
          appliedList |-> << >>, errors |-> 0, validated |-> << >>, staged |-> << >>,
          undone |-> << >>,
          returned |-> [success |-> FALSE, branch |-> "none", commitHash |-> FALSE,
                        prUrl |-> FALSE]]

\* The fields of the object commit() returned.
Returns(cr) == [success |-> cr.success, branch |-> cr.branch, commitHash |-> cr.commitHash,
                prUrl |-> cr.prUrl]

IdleThread == Thread("idle", FALSE, 0, << >>, 0, NoEvaluation)

\* The state a handler of the daemon reads and writes, as one record, so that
\* the statements of a handler compose in order.
DState ==
    [running |-> running, timerRef |-> timerRef, intervalTimers |-> intervalTimers,
     dailyReset |-> dailyReset, resetTimers |-> resetTimers, dailyCount |-> dailyCount,
     threads |-> threads, log |-> log, commitsToday |-> commitsToday, started |-> started,
     written |-> written, lastPlan |-> lastPlan, lastRun |-> lastRun,
     branch |-> branch, lastLogged |-> lastLogged,
     jInput |-> jInput, jOutput |-> jOutput, processed |-> processed, processedFile |-> processedFile,
     marks |-> marks, files |-> files, backups |-> backups, applied |-> appliedChanges]

\* this._log(event, { id, ... })
LogEvent(d, event, id) ==
    [d EXCEPT !.log = @ \cup {[event |-> event, id |-> id]}, !.lastLogged[id] = event]

\* this.inbox.markProcessed(id, outcome)
MarkProcessed(d, id, outcome, saved) ==
    LET proc == [d.processed EXCEPT ![id] = outcome] IN
    [d EXCEPT !.processed = proc,
              !.processedFile = SaveProcessed(proc, d.processedFile, saved),
              !.marks[id] = @ + 1]

\* _cycle() returns.  When start() awaited it, start() goes on to arm the
\* interval timer and to store its handle.
EndCycle(d, t) ==
    LET th == d.threads[t] IN
    IF th.fromStart
    THEN [d EXCEPT !.intervalTimers = @ \cup {th.handle}, !.timerRef = th.handle,
                   !.threads[t] = IdleThread]
    ELSE [d EXCEPT !.threads[t] = IdleThread]

\* _processProposal(batch[i]) up to its first await, the Oracle call of the
\* judge.
BeginProposal(d, t, i) ==
    LET id == d.threads[t].batch[i].id
        d1 == LogEvent(d, "PROPOSAL_START", id)
    IN [d1 EXCEPT !.started[id] = @ + 1, !.threads[t].idx = i, !.threads[t].pc = "judging"]

LoopFromIgnoresStop(d, t, i) ==
    IF \/ i > Len(d.threads[t].batch)
       \/ d.dailyCount >= maxProposalsPerDay
    THEN EndCycle(d, t)
    ELSE BeginProposal(d, t, i)

\* The for loop of _cycle() at proposal i of the batch.
LoopFrom(d, t, i) ==
    IF \/ i > Len(d.threads[t].batch)
       \/ d.dailyCount >= maxProposalsPerDay
       \/ ~d.running
    THEN EndCycle(d, t)
    ELSE BeginProposal(d, t, i)

BeginCycleNoCapCheck(d, t, fromStart, handle) ==
    [d EXCEPT !.threads[t] = Thread("collecting", fromStart, handle, << >>, 0, NoEvaluation)]

\* _cycle() up to its first await, inbox.collect().
BeginCycle(d, t, fromStart, handle) ==
    LET d1 == [d EXCEPT !.threads[t] = Thread("collecting", fromStart, handle, << >>, 0,
                                              NoEvaluation)]
    IN IF d.dailyCount >= maxProposalsPerDay
       THEN EndCycle(d1, t)
       ELSE d1

AfterJudgeReviewUnmarked(d, t, resp, saved) ==
    LET th == d.threads[t]
        id == th.batch[th.idx].id
        ev == Evaluate(resp)
        d1 == LogEvent([d EXCEPT !.jInput = resp, !.jOutput = ev], "PROPOSAL_JUDGED", id)
    IN IF ev.verdict = "REJECTED"
       THEN LoopFrom(MarkProcessed(d1, id, "rejected", saved), t, th.idx + 1)
       ELSE IF ev.verdict = "NEEDS_REVIEW"
       THEN LoopFrom(d1, t, th.idx + 1)
       ELSE [d1 EXCEPT !.threads[t].pc = "planning", !.threads[t].eval = ev]

\* _processProposal() from the judge's answer to its return or its next
\* await, the Oracle call of the planner.
AfterJudge(d, t, resp, saved) ==
    LET th == d.threads[t]
        id == th.batch[th.idx].id
        ev == Evaluate(resp)
        d1 == LogEvent([d EXCEPT !.jInput = resp, !.jOutput = ev], "PROPOSAL_JUDGED", id)
    IN IF ev.verdict = "REJECTED"
       THEN LoopFrom(MarkProcessed(d1, id, "rejected", saved), t, th.idx + 1)
       ELSE IF ev.verdict = "NEEDS_REVIEW"
       THEN LoopFrom(MarkProcessed(d1, id, "needs_review", saved), t, th.idx + 1)
       ELSE [d1 EXCEPT !.threads[t].pc = "planning", !.threads[t].eval = ev]

PlanRejectedOnlyNull(res) == res.isNull

\* if (!valid || !plan)
PlanRejected(res) == ~res.valid \/ res.isNull

WriteFailedNotChecked(wr) == FALSE

\* if (!writeResult.success && writeResult.applied.length === 0)
WriteFailed(wr) == ~wr.success /\ Len(wr.applied) = 0

RollbackEmptyList(d) ==
    [d EXCEPT !.applied = << >>, !.lastRun.rolledBack = TRUE, !.lastRun.undone = << >>]

\* writer.rollback() within the daemon.
Rollback(d) ==
    LET st == RollbackAll(d.files, d.backups, d.applied) IN
    [d EXCEPT !.files = st.files, !.backups = st.backups, !.applied = st.applied,
              !.lastRun.rolledBack = TRUE, !.lastRun.undone = d.applied]

\* The commands of _createPR and of _directCommit, in order; the git add of
\* each applied file is one step.
PRSteps ==
    << "git checkout", "git pull", "git branch -D", "git checkout -b", "git add",
       "git commit", "git push", "git rev-parse", "gh pr create", "git checkout back" >>

DirectSteps == << "git checkout", "git add", "git commit", "git push", "git rev-parse" >>

\* The commands whose failure _createPR catches itself.
ToleratedSteps == { "git branch -D", "gh pr create" }

\* The branch checked out after the commands of commit() have run up to the
\* failure of `failing`: "feature" once git checkout -b has succeeded and
\* until the checkout back, "base" once the first checkout has succeeded,
\* "unchanged" when that checkout failed.
BranchAfter(direct, failing) ==
    LET steps == IF direct THEN DirectSteps ELSE PRSteps
        Pos(c) == CHOOSE i \in 1..Len(steps) : steps[i] = c
        ran == \E i \in 1..Len(steps) : steps[i] = failing
        stopsAt == IF ran /\ failing \notin ToleratedSteps
                   THEN Pos(failing) ELSE Len(steps) + 1
        Done(c) == (\E i \in 1..Len(steps) : steps[i] = c) /\ Pos(c) < stopsAt
                   /\ c # failing
    IN IF Done("git checkout -b") /\ ~Done("git checkout back") THEN "feature"
       ELSE IF Done("git checkout") THEN "base"
       ELSE "unchanged"

\* What commit() returns: success, the branch name and whether there is a
\* commit hash and a PR URL; with it, the command that failed and the branch
\* left checked out.
CommitResult(direct, failing, ran, ok) ==
    [success |-> ok,
     branch |-> IF ~ok THEN "none" ELSE IF direct THEN "base" ELSE "feature",
     commitHash |-> ok,
     prUrl |-> ok /\ ~direct /\ failing # "gh pr create",
     failed |-> IF ran THEN failing ELSE "none",
     checkedOut |-> BranchAfter(direct, failing)]

CommitPushUnchecked(direct, failing) ==
    LET steps == IF direct THEN DirectSteps ELSE PRSteps
        ran == \E i \in 1..Len(steps) : steps[i] = failing
    IN CommitResult(direct, failing, ran,
                    ~(ran /\ failing \notin (ToleratedSteps \cup {"git push"})))

CommitPRRequired(direct, failing) ==
    LET steps == IF direct THEN DirectSteps ELSE PRSteps
        ran == \E i \in 1..Len(steps) : steps[i] = failing
    IN CommitResult(direct, failing, ran, ~(ran /\ failing # "git branch -D"))

\* committer.commit(), when the command `failing` fails if it is run ("none":
\* every command succeeds).
Commit(direct, failing) ==
    LET steps == IF direct THEN DirectSteps ELSE PRSteps
        ran == \E i \in 1..Len(steps) : steps[i] = failing
    IN CommitResult(direct, failing, ran, ~(ran /\ failing \notin ToleratedSteps))

\* The files commit() has run git add for when it returns: those of the
\* list it was given, unless a command before the staging, or the staging,
\* failed.
StagedFiles(failed, applied) ==
    IF failed \in {"git checkout", "git pull", "git checkout -b", "git add"}
    THEN << >>
    ELSE [i \in 1..Len(applied) |-> applied[i].filePath]

ValidatorInputWholePlan(wr, changes) ==
    [i \in 1..Len(changes) |-> [action |-> changes[i].action, filePath |-> changes[i].filePath]]

\* The list _processProposal() gives to validate() and to commit().
ValidatorInput(wr, changes) == wr.applied
CommitInput(wr, changes) == wr.applied

\* _processProposal() from the planner's answer to its return: nothing in it
\* waits for anything but the file system and child processes that are run
\* synchronously.  passed is the validator's result and cr what commit()
\* returns.
AfterPlan(d, t, resp, passed, cr, saved) ==
    LET th == d.threads[t]
        id == th.batch[th.idx].id
        res == Plan(resp)
        d0 == [d EXCEPT !.lastPlan = [valid |-> res.valid, isNull |-> res.isNull],
                        !.lastRun = [NoRun EXCEPT !.stopped = ~d.running]]
    IN IF PlanRejected(res)
       THEN LoopFrom(MarkProcessed(LogEvent(d0, "PLAN_INVALID", id), id, "plan_failed", saved),
                     t, th.idx + 1)
       ELSE
       LET d1 == LogEvent(d0, "PLAN_CREATED", id)
           st == ApplyPlan(d1.files, d1.backups, d1.applied, res.changes)
           wr == ApplyResult(st, res.changes)
           d2 == [d1 EXCEPT !.files = st.files, !.backups = st.backups,
                            !.applied = st.applied,
                            !.written = IF Len(wr.applied) > 0 THEN @ \cup {th.eval} ELSE @,
                            !.lastRun.applyCalled = TRUE,
                            !.lastRun.applied = Len(wr.applied),
                            !.lastRun.appliedList = wr.applied,
                            !.lastRun.errors = Len(wr.errors)]
           vin == ValidatorInput(wr, res.changes)
           cin == CommitInput(wr, res.changes)
       IN IF WriteFailed(wr)
          THEN LoopFrom(MarkProcessed(LogEvent(d2, "WRITE_FAILED", id), id, "write_failed",
                                      saved), t, th.idx + 1)
          ELSE IF ~passed
          THEN LET d3 == Rollback([d2 EXCEPT !.lastRun.validator = "failed",
                                             !.lastRun.validated = vin])
               IN LoopFrom(MarkProcessed(LogEvent(d3, "VALIDATION_FAILED", id), id,
                                         "validation_failed", saved), t, th.idx + 1)
          ELSE IF ~cr.success
          THEN LET d3 == Rollback([d2 EXCEPT !.lastRun.validator = "passed",
                                             !.lastRun.validated = vin,
                                             !.lastRun.staged = StagedFiles(cr.failed, cin),
                                             !.lastRun.commit = "fail",
                                             !.lastRun.failed = cr.failed,
                                             !.lastRun.returned = Returns(cr),
                                             !.branch = IF cr.checkedOut = "unchanged"
                                                        THEN @ ELSE cr.checkedOut])
               IN LoopFrom(MarkProcessed(LogEvent(d3, "COMMIT_FAILED", id), id,
                                         "commit_failed", saved), t, th.idx + 1)
          ELSE
          LET d3 == [d2 EXCEPT !.lastRun.validator = "passed",
                               !.lastRun.validated = vin,
                               !.lastRun.staged = StagedFiles(cr.failed, cin),
                               !.lastRun.commit = "success",
                               !.lastRun.failed = cr.failed,
                               !.lastRun.returned = Returns(cr),
                               !.branch = IF cr.checkedOut = "unchanged"
                                          THEN @ ELSE cr.checkedOut,
                               !.dailyCount = @ + 1, !.commitsToday = @ + 1]
              d4 == MarkProcessed(d3, id, IF cr.prUrl THEN "pr_created" ELSE "committed",
                                  saved)
          IN LoopFrom(LogEvent(d4, "PROPOSAL_COMPLETE", id), t, th.idx + 1)

\* The daemon's variables take the values of record d.
Becomes(d) ==
    /\ running' = d.running
    /\ timerRef' = d.timerRef
    /\ intervalTimers' = d.intervalTimers
    /\ dailyReset' = d.dailyReset
    /\ resetTimers' = d.resetTimers
    /\ dailyCount' = d.dailyCount
    /\ threads' = d.threads
    /\ log' = d.log
    /\ commitsToday' = d.commitsToday
    /\ started' = d.started
    /\ written' = d.written
    /\ lastPlan' = d.lastPlan
    /\ lastRun' = d.lastRun
    /\ jInput' = d.jInput
    /\ jOutput' = d.jOutput
    /\ directCommit' = directCommit
    /\ branch' = d.branch
    /\ lastLogged' = d.lastLogged
    /\ processed' = d.processed
    /\ processedFile' = d.processedFile
    /\ marks' = d.marks
    /\ files' = d.files
    /\ backups' = d.backups
    /\ appliedChanges' = d.applied

DaemonFresh ==
    /\ running = FALSE
    /\ timerRef = 0
    /\ intervalTimers = {}
    /\ dailyReset = 0
    /\ resetTimers = {}
    /\ dailyCount = 0
    /\ threads = [t \in 1..MaxThreads |-> IdleThread]
    /\ log = {}
    /\ events = 0
    /\ commitsToday = 0
    /\ started = [id \in ProposalIds |-> 0]
    /\ written = {}
    /\ lastPlan = NoPlan
    /\ lastRun = NoRun
    /\ branch = "base"
    /\ lastLogged = [id \in ProposalIds \cup {"daemon"} |-> "none"]

\* A daemon just constructed, with the default configuration of the
\* committer.
DaemonIdle ==
    /\ DaemonFresh
    /\ directCommit = FALSE

-----------------------------------------------------------------------------
(* Validator *)

\* config.entryPoints, by default.
entryPoints == << <<"core", "index.js">>, <<"sdk.js">> >>

\* filePath.endsWith('.js') || filePath.endsWith('.mjs'), on the last
\* segment of the path.
EndsWithJs(filePath) ==
    /\ filePath # << >>
    /\ filePath[Len(filePath)] \in {"a.js", "b.js", "x.js", "index.js", "sdk.js", "m.mjs"}

Check(kind, target, passed) == [name |-> [kind |-> kind, target |-> target], passed |-> passed]

\* The checks up to and with the first that failed.
RECURSIVE UpToFailure(_, _)
UpToFailure(checks, i) ==
    IF i > Len(checks) THEN << >>
    ELSE IF ~checks[i].passed THEN <<checks[i]>>
    ELSE <<checks[i]>> \o UpToFailure(checks, i + 1)

\* The checks validate() pushes, in order: the syntax check of every changed
\* .js or .mjs file, the import check of every entry point, and the test
\* suite when it is configured.  in.syntaxOk[i], in.importOk[k] and
\* in.testsOk say what node and npm find.
AllChecks(in) ==
    LET n == Len(in.changes)
        each == [i \in 1..n |-> Check("syntax", in.changes[i].filePath, in.syntaxOk[i])]
        syntax == SelectSeq(each, LAMBDA c : EndsWithJs(c.name.target))
        imports == [k \in 1..Len(entryPoints) |->
                      Check("imports", entryPoints[k], in.importOk[k])]
        tests == IF in.runTests THEN <<Check("test-suite", << >>, in.testsOk)>> ELSE << >>
    IN syntax \o imports \o tests

ValidateStopsAtFailure(in) ==
    LET checks == UpToFailure(AllChecks(in), 1)
    IN [passed |-> \A k \in 1..Len(checks) : checks[k].passed, checks |-> checks]

\* validator.validate(appliedChanges)
Validate(in) ==
    LET checks == AllChecks(in)
    IN [passed |-> \A k \in 1..Len(checks) : checks[k].passed, checks |-> checks]

NoValidation == [changes |-> << >>, syntaxOk |-> << >>, importOk |-> << >>,
                 runTests |-> FALSE, testsOk |-> FALSE]
NoReport == [passed |-> FALSE, checks |-> << >>]

-----------------------------------------------------------------------------
(* SurvivalManager *)

\* The mode updateVitalSigns() chooses for a balance: healthRatio is
\* balance / initial, compared here without the division.
Mode(balance, initial) ==
    IF balance * 100 >= 120 * initial THEN "GROWTH"
    ELSE IF balance * 100 <= 85 * initial /\ balance * 100 > 50 * initial THEN "DEFENSIVE"
    ELSE IF balance * 100 <= 50 * initial THEN "CRITICAL"
    ELSE "SURVIVAL"

\* setMode(newMode, ratio): the state after it, and whether it ended the
\* process.
SetMode(current, newMode) ==
    IF current = newMode THEN [state |-> current, exited |-> FALSE]
    ELSE [state |-> newMode, exited |-> newMode = "CRITICAL"]

\* The survival manager of a process that uses none.
SurvivalIdle ==
    /\ initialBalance = 100
    /\ currentBalance = 100
    /\ state = "SURVIVAL"
    /\ exited = FALSE
    /\ streak = 0

ValidatorIdle ==
    /\ vInput = NoValidation
    /\ vOutput = NoReport

SideIdle ==
    /\ ValidatorIdle
    /\ SurvivalIdle

-----------------------------------------------------------------------------
(* The writer on its own: apply() and rollback() called on any plan.        *)

MaxPlanLen == 2
MaxRuns == 2

\* The changes an Oracle's plan is drawn from: both actions on a file that
\* exists and on files that do not, one file under two spellings, and the
\* changes the writer must refuse.
Change(a, p, c) == [action |-> a, filePath |-> p, content |-> c]

WriterChanges ==
    { Change("modify", <<"core", "a.js">>, "v1"),
      Change("create", <<"core", "a.js">>, "v1"),
      Change("create", <<"core", "", "a.js">>, "v2"),
      Change("create", <<"core", "b.js">>, "v1"),
      Change("modify", <<"core", "a.js">>, NoContent),
      Change("modify", <<"core", "a.js">>, "huge"),
      Change("delete", <<"core", "a.js">>, "v1"),
      Change("modify", << >>, "v1"),
      Change("modify", <<"core", "evolution", "x.js">>, "v1"),
      Change("modify", <<"core", "", "evolution", "x.js">>, "v1"),
      Change("create", <<"core", "..", ".git", "config">>, "v1"),
      Change("create", <<"docs", "readme.md">>, "v1") }

WriterFilePaths == { c.filePath : c \in WriterChanges }

WriterPlans ==
    UNION { [1..n -> WriterChanges] : n \in 0..MaxPlanLen }

\* The files of the working tree the model follows.
TreePaths == { Resolve(p) : p \in WriterFilePaths \ { << >> } }

NoResult == [success |-> FALSE, applied |-> << >>, errors |-> << >>]
NoRollback == [success |-> TRUE, rolled |-> 0, errors |-> << >>]

\* Working trees to start from: core/a.js and core/b.js may or may not
\* exist; the files outside the writer's reach do.
InitialTrees ==
    { t \in [TreePaths -> {"old", Absent}] :
        \A p \in TreePaths : (p[1] # "core" \/ p[2] = "evolution") => t[p] = "old" }

InitWriter ==
    /\ SideIdle
    /\ jInput = [kind |-> "none", verdict |-> "none", relevance |-> Missing,
                 value |-> Missing, safety |-> Missing, feasibility |-> Missing]
    /\ jOutput = [verdict |-> "none", scores |-> ZeroScores, sum4 |-> Num(0),
                  summary |-> "none"]
    /\ pInput = [kind |-> "none", changes |-> << >>]
    /\ pOutput = [isNull |-> TRUE, changes |-> << >>, valid |-> FALSE, errors |-> << >>]
    /\ queue = << >>
    /\ processed = [id \in ProposalIds |-> "none"]
    /\ processedFile = processed
    /\ now = 0
    /\ marks = [id \in ProposalIds |-> 0]
    /\ lastBatch = << >>
    /\ returnedMarked = FALSE
    /\ lastFetch = "none"
    /\ DaemonIdle
    /\ files \in InitialTrees
    /\ runs = 0
    /\ backups = [p \in TreePaths |-> Absent]
    /\ appliedChanges = << >>
    /\ lastChanges = << >>
    /\ lastApply = NoResult
    /\ lastRollback = NoRollback
    /\ preRun = files
    /\ wPhase = "idle"

\* writer.apply(plan)
WriterApply(changes) ==
    LET st == ApplyPlan(files, backups, appliedChanges, changes) IN
    /\ runs < MaxRuns
    /\ runs' = runs + 1
    /\ files' = st.files
    /\ backups' = st.backups
    /\ appliedChanges' = st.applied
    /\ lastChanges' = changes
    /\ lastApply' = ApplyResult(st, changes)
    /\ preRun' = files
    /\ wPhase' = "applied"
    /\ UNCHANGED <<lastRollback, pureVars, collectorVars, daemonVars, sideVars>>

\* writer.rollback()
WriterRollback ==
    LET st == RollbackAll(files, backups, appliedChanges) IN
    /\ files' = st.files
    /\ backups' = st.backups
    /\ appliedChanges' = st.applied
    /\ lastRollback' = [success |-> st.errors = << >>, rolled |-> st.rolled,
                        errors |-> st.errors]
    /\ wPhase' = "rolledBack"
    /\ UNCHANGED <<lastChanges, lastApply, preRun, runs, pureVars, collectorVars, daemonVars, sideVars>>

NextWriter ==
    \/ \E changes \in WriterPlans : WriterApply(changes)
    \/ WriterRollback

SpecWriter == InitWriter /\ [][NextWriter]_vars

-----------------------------------------------------------------------------
(* The judge on its own: evaluate() on any answer of the Oracle.            *)

RawScores == { Num(0 - 3), Num(5), Num(7), Num(8), Num(10), Num(14), NaN, Missing }
OtherRawScores == { Num(5), Num(7), Num(10), NaN }

\* The verdict of a response that has none.
NoVerdict == "<undefined>"

JudgeResponses ==
    [kind : {"json"}, verdict : {"APPROVED", "REJECTED", "NEEDS_REVIEW", "MAYBE", NoVerdict},
     relevance : OtherRawScores, value : OtherRawScores, safety : RawScores,
     feasibility : OtherRawScores]
    \cup [kind : {"garbage", "throw"}, verdict : {"none"}, relevance : {Missing},
          value : {Missing}, safety : {Missing}, feasibility : {Missing}]

NoJudgeResponse == [kind |-> "none", verdict |-> "none", relevance |-> Missing,
                    value |-> Missing, safety |-> Missing, feasibility |-> Missing]
NoPlanResponse == [kind |-> "none", changes |-> << >>]
NoPlanResult == [isNull |-> TRUE, changes |-> << >>, valid |-> FALSE, errors |-> << >>]

WriterIdle ==
    /\ files = [p \in TreePaths |-> "old"]
    /\ runs = 0
    /\ backups = [p \in TreePaths |-> Absent]
    /\ appliedChanges = << >>
    /\ lastChanges = << >>
    /\ lastApply = NoResult
    /\ lastRollback = NoRollback
    /\ preRun = files
    /\ wPhase = "idle"

CollectorIdle ==
    /\ queue = << >>
    /\ processed = NoneProcessed
    /\ processedFile = NoneProcessed
    /\ now = 0
    /\ marks = [id \in ProposalIds |-> 0]
    /\ lastBatch = << >>
    /\ returnedMarked = FALSE
    /\ lastFetch = "none"

PureIdle ==
    /\ jInput = NoJudgeResponse
    /\ jOutput = NoEvaluation
    /\ pInput = NoPlanResponse
    /\ pOutput = NoPlanResult

InitJudge ==
    /\ SideIdle
    /\ WriterIdle
    /\ CollectorIdle
    /\ DaemonIdle
    /\ jInput \in JudgeResponses
    /\ jOutput = NoEvaluation
    /\ pInput = NoPlanResponse
    /\ pOutput = NoPlanResult

\* judge.evaluate(proposal)
JudgeEvaluate ==
    /\ jOutput = NoEvaluation
    /\ jOutput' = Evaluate(jInput)
    /\ UNCHANGED <<writerVars, jInput, pInput, pOutput, collectorVars, daemonVars, sideVars>>

NextJudge == JudgeEvaluate

SpecJudge == InitJudge /\ [][NextJudge]_vars

-----------------------------------------------------------------------------
(* The planner on its own: plan() on any answer of the Oracle.              *)

MaxPlannerLen == 2

PlannerChanges ==
    { Change("create", <<"core", "b.js">>, "v1"),
      Change("modify", <<"core", "a.js">>, "v1"),
      Change("modify", <<"core", "a.js">>, NoContent),
      Change("create", <<"core", "b.js">>, ""),
      Change("create", <<"core", "b.js">>, "  "),
      Change("modify", <<"core", "a.js">>, "eval(x)"),
      Change("modify", <<"core", "evolution", "x.js">>, "v1"),
      Change("modify", <<".git", "config">>, "v1"),
      Change("modify", <<".env.local">>, "v1"),
      Change("create", <<"docs", "readme.md">>, "v1"),
      Change("modify", <<"sdk.json">>, "v1"),
      Change("modify", << >>, "v1") }

\* A plan of maxChanges + 1 valid changes.
LongPlan == [i \in 1..(maxChanges + 1) |-> Change("modify", <<"core", "a.js">>, "v1")]

\* Plans of n valid changes, for n at and around the bound.
PlanOfLen(n) == [i \in 1..n |-> Change("modify", <<"core", "a.js">>, "v1")]
BoundPlans == { PlanOfLen(n) : n \in { maxChanges - 1, maxChanges, maxChanges + 2 } }

PlanResponses ==
    { [kind |-> "json", changes |-> c] :
        c \in UNION { [1..n -> PlannerChanges] : n \in 0..MaxPlannerLen } \cup { LongPlan } \cup BoundPlans }
    \cup { [kind |-> k, changes |-> << >>] : k \in {"garbage", "nochanges", "throw"} }

InitPlanner ==
    /\ SideIdle
    /\ WriterIdle
    /\ CollectorIdle
    /\ DaemonIdle
    /\ jInput = NoJudgeResponse
    /\ jOutput = NoEvaluation
    /\ pInput \in PlanResponses
    /\ pOutput = NoPlanResult

\* planner.plan(proposal, evaluation)
PlannerPlan ==
    /\ pOutput = NoPlanResult
    /\ pOutput' = Plan(pInput)
    /\ UNCHANGED <<writerVars, jInput, jOutput, pInput, collectorVars, daemonVars, sideVars>>

NextPlanner == PlannerPlan

SpecPlanner == InitPlanner /\ [][NextPlanner]_vars

-----------------------------------------------------------------------------
(* The collector on its own: collect(), markProcessed() and addProposal()   *)
(* in any order, and the collector created anew from the processed-state    *)
(* file.                                                                    *)

MaxDay == 3

\* markProcessed() calls per proposal id in one behaviour.
MaxMarks == 1

Outcomes == { "rejected", "committed" }

InitCollector ==
    /\ SideIdle
    /\ WriterIdle
    /\ PureIdle
    /\ DaemonIdle
    /\ queue \in { << >>, << Proposal(LocalIds[1], 0) >>,
                   << Proposal(LocalIds[1], 0), Garbage >> }
    /\ processed = NoneProcessed
    /\ processedFile = NoneProcessed
    /\ now = 0
    /\ marks = [id \in ProposalIds |-> 0]
    /\ lastBatch = << >>
    /\ returnedMarked = FALSE
    /\ lastFetch = "none"

\* inbox.collect(); fetched says whether the issue fetch succeeded.
CollectorCollect(fetched) ==
    LET res == CollectFrom(fetched, queue, processed, now)
        batch == res.batch
    IN
    /\ lastFetch' = (IF res.threw THEN "threw" ELSE IF fetched THEN "ok" ELSE "failed")
    /\ lastBatch' = batch
    /\ returnedMarked' = (returnedMarked \/ \E i \in 1..Len(batch) : marks[batch[i].id] > 0)
    /\ UNCHANGED <<writerVars, pureVars, daemonVars, sideVars, queue, processed, processedFile, now,
                   marks>>

\* inbox.markProcessed(id, outcome); saved says whether the file write
\* succeeded.
CollectorMark(id, outcome, saved) ==
    /\ marks[id] < MaxMarks
    /\ processed' = [processed EXCEPT ![id] = outcome]
    /\ processedFile' = SaveProcessed(processed', processedFile, saved)
    /\ marks' = [marks EXCEPT ![id] = @ + 1]
    /\ lastFetch' = "none"
    /\ UNCHANGED <<writerVars, pureVars, daemonVars, sideVars, queue, now, lastBatch, returnedMarked>>

\* inbox.addProposal(proposal)
CollectorAdd ==
    /\ Len(Entries(queue)) < Len(LocalIds)
    /\ queue' = AddProposal(queue, now)
    /\ UNCHANGED <<writerVars, pureVars, daemonVars, sideVars, processed, processedFile, now, marks,
                   lastBatch, returnedMarked>>
    /\ lastFetch' = "none"

\* new InboxCollector(config) after the process ended.
CollectorRestart ==
    /\ processed' = LoadProcessed(processedFile)
    /\ UNCHANGED <<writerVars, pureVars, daemonVars, sideVars, queue, processedFile, now, marks,
                   lastBatch, returnedMarked>>
    /\ lastFetch' = "none"

\* A day passes.
CollectorDayPasses ==
    /\ now < MaxDay
    /\ now' = now + 1
    /\ UNCHANGED <<writerVars, pureVars, daemonVars, sideVars, queue, processed, processedFile, marks,
                   lastBatch, returnedMarked>>
    /\ lastFetch' = "none"

NextCollector ==
    \/ \E fetched \in BOOLEAN : CollectorCollect(fetched)
    \/ \E id \in ProposalIds, outcome \in Outcomes, saved \in BOOLEAN :
           CollectorMark(id, outcome, saved)
    \/ CollectorAdd
    \/ CollectorRestart
    \/ CollectorDayPasses

SpecCollector == InitCollector /\ [][NextCollector]_vars

-----------------------------------------------------------------------------
(* The validator on its own: validate() on any applied changes, with any    *)
(* outcome of each check.                                                   *)

\* The changes of one validate() call.
MaxValidated == 2

ValidatedChanges ==
    { [action |-> "modify", filePath |-> <<"core", "a.js">>],
      [action |-> "create", filePath |-> <<"core", "m.mjs">>],
      [action |-> "create", filePath |-> <<"docs", "readme.md">>] }

Validations ==
    { [changes |-> c, syntaxOk |-> so, importOk |-> io, runTests |-> rt, testsOk |-> tk] :
        c \in UNION { [1..n -> ValidatedChanges] : n \in 0..MaxValidated },
        so \in [1..MaxValidated -> BOOLEAN],
        io \in [1..Len(entryPoints) -> BOOLEAN],
        rt \in BOOLEAN, tk \in BOOLEAN }

InitValidator ==
    /\ WriterIdle
    /\ PureIdle
    /\ CollectorIdle
    /\ DaemonIdle
    /\ SurvivalIdle
    /\ vInput \in Validations
    /\ vOutput = NoReport

\* validator.validate(appliedChanges)
ValidatorValidate ==
    /\ vOutput = NoReport
    /\ vOutput' = Validate(vInput)
    /\ UNCHANGED <<writerVars, pureVars, collectorVars, daemonVars, vInput, initialBalance,
                   currentBalance, state, exited, streak>>

NextValidator == ValidatorValidate

SpecValidator == InitValidator /\ [][NextValidator]_vars

-----------------------------------------------------------------------------
(* The survival manager on its own: updateVitalSigns() with any balance.    *)

\* The starting capitals, and the balances in percent of the starting
\* capital: at, just above and just below every threshold.
InitialBalances == { 100, 200, 300, 400, 500 }
Percents == { 40, 50, 51, 84, 85, 86, 100, 119, 120, 121 }

\* The ticks a zone is to be observed before the state changes, as the
\* documentation of createSurvival() configures it.
hysteresisThreshold == 3

InitSurvival ==
    /\ WriterIdle
    /\ PureIdle
    /\ CollectorIdle
    /\ DaemonIdle
    /\ ValidatorIdle
    /\ initialBalance \in InitialBalances
    /\ currentBalance = initialBalance
    /\ state = "SURVIVAL"
    /\ exited = FALSE
    /\ streak = 0

\* survival.updateVitalSigns(newBalance)
SurvivalUpdate(pct) ==
    /\ ~exited
    /\ LET newBalance == (pct * initialBalance) \div 100
           newMode == Mode(newBalance, initialBalance)
           res == SetMode(state, newMode)
       IN /\ currentBalance' = newBalance
          /\ state' = res.state
          /\ exited' = res.exited
          /\ streak' = IF streak > 0 /\ newMode = Mode(currentBalance, initialBalance)
                        THEN (IF streak < hysteresisThreshold THEN streak + 1 ELSE streak)
                        ELSE 1
    /\ UNCHANGED <<writerVars, pureVars, collectorVars, daemonVars, vInput, vOutput,
                   initialBalance>>

NextSurvival == \E pct \in Percents : SurvivalUpdate(pct)

SpecSurvival == InitSurvival /\ [][NextSurvival]_vars

-----------------------------------------------------------------------------
(* The daemon: start(), stop(), submitProposal(), the interval timers and   *)
(* the midnight timeout in any order, with the Oracle, the issue tracker,   *)
(* the validator and the committer answering in any way.                    *)

\* Calls of start(), stop() and submitProposal(), timer ticks and midnights
\* in one behaviour.
MaxEvents == 3

\* What the judge's Oracle answers: all scores high, scores that are not
\* numbers, an average below the threshold, a rejection, and no answer.
DaemonJudgeResponses ==
    { [kind |-> "json", verdict |-> "APPROVED", relevance |-> Num(9), value |-> Num(9),
       safety |-> Num(9), feasibility |-> Num(9)],
      [kind |-> "json", verdict |-> "APPROVED", relevance |-> NaN, value |-> NaN,
       safety |-> NaN, feasibility |-> NaN],
      [kind |-> "json", verdict |-> "APPROVED", relevance |-> Num(5), value |-> Num(5),
       safety |-> Num(10), feasibility |-> Num(5)],
      [kind |-> "json", verdict |-> "REJECTED", relevance |-> Num(5), value |-> Num(5),
       safety |-> Num(5), feasibility |-> Num(5)],
      [kind |-> "throw", verdict |-> "none", relevance |-> Missing, value |-> Missing,
       safety |-> Missing, feasibility |-> Missing] }

\* What the planner's Oracle answers: a plan that passes, a forbidden path,
\* a dangerous content on a writable path, a path the writer refuses, and no
\* answer.
DaemonPlanResponses ==
    { [kind |-> "json", changes |-> << Change("create", <<"core", "b.js">>, "v1") >>],
      [kind |-> "json", changes |-> << Change("modify", <<".git", "config">>, "v1") >>],
      [kind |-> "json", changes |-> << Change("modify", <<"core", "a.js">>, "eval(x)") >>],
      [kind |-> "json", changes |-> << Change("modify", << >>, "v1") >>],
      [kind |-> "throw", changes |-> << >>] }

\* The commands of the committer that fail here.
DaemonCommitFailures == { "none", "git push", "gh pr create" }

Init ==
    /\ SideIdle
    /\ PureIdle
    /\ DaemonIdle
    /\ files = [p \in TreePaths |-> IF p = <<"core", "b.js">> THEN Absent ELSE "old"]
    /\ runs = 0
    /\ backups = [p \in TreePaths |-> Absent]
    /\ appliedChanges = << >>
    /\ lastChanges = << >>
    /\ lastApply = NoResult
    /\ lastRollback = NoRollback
    /\ preRun = files
    /\ wPhase = "idle"
    /\ queue = << Proposal(LocalIds[1], 0) >>
    /\ processed = NoneProcessed
    /\ processedFile = NoneProcessed
    /\ now = 0
    /\ marks = [id \in ProposalIds |-> 0]
    /\ lastBatch = << >>
    /\ returnedMarked = FALSE
    /\ lastFetch = "none"

\* What no handler of the daemon touches.
daemonFrame == <<pInput, pOutput, lastChanges, lastApply, lastRollback, preRun, wPhase, runs, lastBatch,
                 returnedMarked, lastFetch, sideVars>>

\* The first thread slot that is free.
FreeSlot(t) ==
    /\ threads[t].pc = "idle"
    /\ \A u \in 1..(t - 1) : threads[u].pc # "idle"

\* daemon.start(), in a behaviour of at most `most` calls and timer events.
StartWithin(most) ==
    /\ events < most
    /\ events' = events + 1
    /\ IF running
       THEN Becomes(DState)
       ELSE \E t \in 1..MaxThreads :
              /\ FreeSlot(t)
              /\ LET h == events + 1
                     d1 == [DState EXCEPT !.running = TRUE, !.dailyCount = 0,
                                          !.resetTimers = @ \cup {h}, !.dailyReset = h]
                 IN Becomes(BeginCycle(LogEvent(d1, "DAEMON_START", "daemon"), t, TRUE, h))
    /\ UNCHANGED <<daemonFrame, queue, now>>

Start == StartWithin(MaxEvents)

\* daemon.stop()
Stop ==
    /\ events < MaxEvents
    /\ events' = events + 1
    /\ LET d1 == [DState EXCEPT !.running = FALSE,
                                !.intervalTimers = @ \ {timerRef}, !.timerRef = 0,
                                !.resetTimers = @ \ {dailyReset}, !.dailyReset = 0]
       IN Becomes(LogEvent(d1, "DAEMON_STOP", "daemon"))
    /\ UNCHANGED <<daemonFrame, queue, now>>

\* The callback of interval timer h.
TickWithin(h, most) ==
    /\ h \in intervalTimers
    /\ events < most
    /\ events' = events + 1
    /\ IF running
       THEN \E t \in 1..MaxThreads :
              /\ FreeSlot(t)
              /\ Becomes(BeginCycle(DState, t, FALSE, 0))
       ELSE Becomes(DState)
    /\ UNCHANGED <<daemonFrame, queue, now>>

Tick(h) == TickWithin(h, MaxEvents)

Max(S) == CHOOSE x \in S : \A y \in S : y <= x

\* Midnight: the day changes, and the midnight timeouts that are armed reset
\* the counter and arm themselves again.
MidnightWithin(most) ==
    /\ events < most
    /\ events' = events + 1
    /\ now < MaxDay
    /\ now' = now + 1
    /\ LET d1 == [DState EXCEPT !.commitsToday = 0]
       IN IF resetTimers = {}
          THEN Becomes(d1)
          ELSE Becomes([d1 EXCEPT !.dailyCount = 0, !.dailyReset = Max(resetTimers)])
    /\ UNCHANGED <<daemonFrame, queue>>

Midnight == MidnightWithin(MaxEvents)

\* daemon.submitProposal(proposal)
SubmitProposalWithin(most) ==
    /\ events < most
    /\ events' = events + 1
    /\ Len(queue) < Len(LocalIds)
    /\ queue' = AddProposal(queue, now)
    /\ Becomes(DState)
    /\ UNCHANGED <<daemonFrame, now>>

SubmitProposal == SubmitProposalWithin(MaxEvents)

\* inbox.collect() of cycle t returns; fetched says whether the issue fetch
\* succeeded.
CollectDone(t, fetched) ==
    /\ threads[t].pc = "collecting"
    /\ LET batch == Collect(IF fetched THEN GitHubIssues ELSE << >>, queue, processed, now)
       IN Becomes(LoopFrom([DState EXCEPT !.threads[t].batch = batch], t, 1))
    /\ UNCHANGED <<daemonFrame, queue, now, events>>

\* The judge's Oracle answers cycle t.
JudgeDone(t, resp, saved) ==
    /\ threads[t].pc = "judging"
    /\ Becomes(AfterJudge(DState, t, resp, saved))
    /\ UNCHANGED <<daemonFrame, queue, now, events>>

\* The planner's Oracle answers cycle t.
PlanDone(t, resp, passed, failing, saved) ==
    /\ threads[t].pc = "planning"
    /\ Becomes(AfterPlan(DState, t, resp, passed, Commit(directCommit, failing), saved))
    /\ UNCHANGED <<daemonFrame, queue, now, events>>

\* The writes of the processed-state file succeed here; SpecCollector follows
\* the ones that fail.
Next ==
    \/ Start
    \/ Stop
    \/ \E h \in 1..MaxEvents : Tick(h)
    \/ Midnight
    \/ SubmitProposal
    \/ \E t \in 1..MaxThreads, fetched \in BOOLEAN : CollectDone(t, fetched)
    \/ \E t \in 1..MaxThreads, resp \in DaemonJudgeResponses : JudgeDone(t, resp, TRUE)
    \/ \E t \in 1..MaxThreads, resp \in DaemonPlanResponses, passed \in BOOLEAN,
          failing \in DaemonCommitFailures :
           PlanDone(t, resp, passed, failing, TRUE)

Spec == Init /\ [][Next]_vars

-----------------------------------------------------------------------------
(* The daemon started, stopped and ticked in any order, with every external *)
(* call returning or failing in the end.                                    *)

\* What the judge's Oracle answers here: an approval, scores below the
\* threshold, or no answer.
ResponsiveJudgeResponses ==
    { resp \in DaemonJudgeResponses :
        resp.kind = "throw" \/ (resp.verdict = "APPROVED" /\ resp.relevance \in {Num(9), Num(5)}) }

\* What the planner's Oracle answers here: a plan that passes, or no answer.
ResponsivePlanResponses ==
    { resp \in DaemonPlanResponses :
        resp.kind = "throw" \/ resp.changes[1].filePath = <<"core", "b.js">> }

\* An external call that a cycle awaits returns or fails: the issue fetch of
\* collect(), the Oracle call of the judge or that of the planner.
Response ==
    \E t \in 1..MaxThreads :
        \/ \E fetched \in BOOLEAN : CollectDone(t, fetched)
        \/ \E resp \in ResponsiveJudgeResponses : JudgeDone(t, resp, TRUE)
        \/ \E resp \in ResponsivePlanResponses, passed \in BOOLEAN,
              failing \in {"none", "git push"} :
               PlanDone(t, resp, passed, failing, TRUE)

NextResponsive ==
    \/ Start
    \/ Stop
    \/ \E h \in 1..MaxEvents : Tick(h)
    \/ Response

\* The calls and timer events of a behaviour are bounded, so the calls that
\* are awaited cannot be overtaken for ever and one fairness condition serves
\* all cycles.
SpecResponsive == Init /\ [][NextResponsive]_vars /\ WF_vars(Response)

-----------------------------------------------------------------------------
(* A daemon that is started and left running for days: proposals are        *)
(* submitted while it runs, the interval timer ticks, midnights pass, and   *)
(* every external call returns before the next call or timer event.         *)

\* Calls and timer events in one behaviour here.
MaxDaysEvents == 5

\* No cycle is in flight.
Quiet == \A t \in 1..MaxThreads : threads[t].pc = "idle"

\* The inbox starts empty: every proposal is submitted to the running daemon.
InitDays ==
    /\ SideIdle
    /\ PureIdle
    /\ DaemonIdle
    /\ files = [p \in TreePaths |-> IF p = <<"core", "b.js">> THEN Absent ELSE "old"]
    /\ runs = 0
    /\ backups = [p \in TreePaths |-> Absent]
    /\ appliedChanges = << >>
    /\ lastChanges = << >>
    /\ lastApply = NoResult
    /\ lastRollback = NoRollback
    /\ preRun = files
    /\ wPhase = "idle"
    /\ queue = << >>
    /\ processed = NoneProcessed
    /\ processedFile = NoneProcessed
    /\ now = 0
    /\ marks = [id \in ProposalIds |-> 0]
    /\ lastBatch = << >>
    /\ returnedMarked = FALSE
    /\ lastFetch = "none"

NextDays ==
    \/ Quiet /\ StartWithin(MaxDaysEvents)
    \/ Quiet /\ \E h \in 1..MaxDaysEvents : TickWithin(h, MaxDaysEvents)
    \/ Quiet /\ running /\ MidnightWithin(MaxDaysEvents)
    \/ Quiet /\ running /\ SubmitProposalWithin(MaxDaysEvents)
    \/ Response

SpecDays == InitDays /\ [][NextDays]_vars

-----------------------------------------------------------------------------
(* One cycle of the daemon after start(), with more answers of the Oracle,  *)
(* every command of the committer failing in turn, both configurations of   *)
(* the committer, and writes of the processed-state file that fail.         *)

CycleJudgeResponses ==
    DaemonJudgeResponses
    \cup { [kind |-> "garbage", verdict |-> "none", relevance |-> Missing, value |-> Missing,
            safety |-> Missing, feasibility |-> Missing],
           [kind |-> "json", verdict |-> NoVerdict, relevance |-> Num(9), value |-> Num(9),
            safety |-> Num(9), feasibility |-> Num(9)] }

\* Also a create of a file that exists, a modify of a file that does not, a
\* content that is missing, a plan of two changes and a plan the writer
\* applies in part.
CyclePlanResponses ==
    DaemonPlanResponses
    \cup { [kind |-> "json", changes |-> << Change("create", <<"core", "a.js">>, "v1") >>],
           [kind |-> "json", changes |-> << Change("modify", <<"core", "b.js">>, "v1") >>],
           [kind |-> "json", changes |-> << Change("modify", <<"core", "a.js">>, NoContent) >>],
           [kind |-> "json", changes |-> << Change("modify", <<"core", "a.js">>, "v1"),
                                            Change("create", <<"core", "b.js">>, "v1") >>],
           [kind |-> "json", changes |-> << Change("modify", <<"core", "a.js">>, "v1"),
                                            Change("modify", << >>, "v1") >>] }

CommitFailures ==
    {"none"} \cup { PRSteps[i] : i \in 1..Len(PRSteps) }
             \cup { DirectSteps[i] : i \in 1..Len(DirectSteps) }

InitCycle ==
    /\ SideIdle
    /\ PureIdle
    /\ DaemonFresh
    /\ directCommit \in BOOLEAN
    /\ files = [p \in TreePaths |-> IF p = <<"core", "b.js">> THEN Absent ELSE "old"]
    /\ runs = 0
    /\ backups = [p \in TreePaths |-> Absent]
    /\ appliedChanges = << >>
    /\ lastChanges = << >>
    /\ lastApply = NoResult
    /\ lastRollback = NoRollback
    /\ preRun = files
    /\ wPhase = "idle"
    /\ queue = << Proposal(LocalIds[1], 0) >>
    /\ processed = NoneProcessed
    /\ processedFile = NoneProcessed
    /\ now = 0
    /\ marks = [id \in ProposalIds |-> 0]
    /\ lastBatch = << >>
    /\ returnedMarked = FALSE
    /\ lastFetch = "none"

NextCycle ==
    \/ Start
    \/ \E t \in 1..MaxThreads, fetched \in BOOLEAN : CollectDone(t, fetched)
    \/ \E t \in 1..MaxThreads, resp \in CycleJudgeResponses, saved \in BOOLEAN :
           JudgeDone(t, resp, saved)
    \/ \E t \in 1..MaxThreads, resp \in CyclePlanResponses, passed \in BOOLEAN,
          failing \in CommitFailures, saved \in BOOLEAN :
           PlanDone(t, resp, passed, failing, saved)

SpecCycle == InitCycle /\ [][NextCycle]_vars

-----------------------------------------------------------------------------
(* C1 *)

\* The files the last apply() touched.
Touched == { Resolve(lastApply.applied[i].filePath) : i \in 1..Len(lastApply.applied) }

\* C1: rollback() right after an apply() that applied changes leaves every
\* file the run touched as it was before the run: its pre-run content if it
\* existed, absent if it did not.
C1_RollbackRestoresPreRun ==
    (wPhase = "rolledBack" /\ Len(lastApply.applied) > 0)
        => \A p \in Touched : files[p] = preRun[p]

-----------------------------------------------------------------------------
(* C2 *)

PathAllowed(fp) == \E a \in allowedPaths : StartsWith(fp, a)
PathDenied(fp) == \E f \in forbiddenPaths : StartsWith(fp, f)

\* What the plan safety invariant asks of one change.
ChangeIsSafe(change) ==
    /\ PathAllowed(change.filePath)
    /\ ~PathDenied(change.filePath)
    /\ ~Dangerous(change.content)
    /\ change.action = "create" => ~(Falsy(change.content) \/ Blank(change.content))

\* C2: when plan() returns valid=true, every change of the plan has a path
\* under an allow-prefix and under no deny-prefix, no dangerous content and,
\* for a create, non-empty content; a plan with a change that breaks one of
\* these is invalid and has a non-empty errors list.
C2_ValidPlanIsSafe ==
    pOutput # NoPlanResult =>
        /\ pOutput.valid => \A i \in 1..Len(pOutput.changes) : ChangeIsSafe(pOutput.changes[i])
        /\ (\E i \in 1..Len(pOutput.changes) : ~ChangeIsSafe(pOutput.changes[i]))
               => (~pOutput.valid /\ pOutput.errors # << >>)

-----------------------------------------------------------------------------
(* C3 *)

\* The proposal cycle t is processing.
Current(t) == threads[t].batch[threads[t].idx].id

\* C3: whenever the planner's result for a proposal is invalid or has no
\* plan, the step of _processProposal() that receives it (cycle t leaves its
\* wait for the planner) leaves the working
\* tree, the backups and the writer's list of applied changes as they were
\* (apply() is not called), logs PLAN_INVALID, marks the proposal processed
\* with 'plan_failed' and neither stops the daemon nor ends the cycle's
\* thread by an error.
C3_InvalidPlanNoWrite ==
    [][\A t \in 1..MaxThreads :
           (/\ threads[t].pc = "planning"
            /\ threads'[t].pc # "planning"
            /\ (~lastPlan'.valid \/ lastPlan'.isNull))
           => /\ files' = files
              /\ backups' = backups
              /\ appliedChanges' = appliedChanges
              /\ written' = written
              /\ [event |-> "PLAN_INVALID", id |-> Current(t)] \in log'
              /\ processed'[Current(t)] = "plan_failed"
              /\ marks'[Current(t)] = marks[Current(t)] + 1
              /\ running' = running]_vars

\* A proposal whose plan was refused has been marked 'plan_failed' while the
\* daemon runs on.
C3_Witness ==
    \E id \in ProposalIds :
        /\ [event |-> "PLAN_INVALID", id |-> id] \in log
        /\ processed[id] = "plan_failed"
        /\ files = [p \in TreePaths |-> IF p = <<"core", "b.js">> THEN Absent ELSE "old"]
        /\ running

-----------------------------------------------------------------------------
(* C4 *)

\* C4: whatever the Oracle answered, an evaluation whose clamped safety
\* score is below safetyMinimum has the verdict REJECTED.
C4_SafetyGate ==
    (jOutput # NoEvaluation /\ Lt(jOutput.scores.safety, safetyMinimum))
        => jOutput.verdict = "REJECTED"

\* The Oracle said APPROVED with a safety score below the minimum, and
\* evaluate() returned.
C4_Witness ==
    /\ jOutput # NoEvaluation
    /\ jInput.kind = "json" /\ jInput.verdict = "APPROVED"
    /\ Lt(jOutput.scores.safety, safetyMinimum)
    /\ Ge(jOutput.sum4, 4 * approvalThreshold)

-----------------------------------------------------------------------------
(* C5 *)

\* C5: evaluate() never returns APPROVED with avgScore below
\* approvalThreshold: a raw APPROVED with such an average comes back as
\* NEEDS_REVIEW, or as REJECTED exactly when the safety gate applies too.
C5_ThresholdGate ==
    jOutput # NoEvaluation =>
        /\ jOutput.verdict = "APPROVED" => ~Lt(jOutput.sum4, 4 * approvalThreshold)
        /\ (jInput.kind = "json" /\ jInput.verdict = "APPROVED"
            /\ Lt(jOutput.sum4, 4 * approvalThreshold))
               => jOutput.verdict =
                    IF Lt(jOutput.scores.safety, safetyMinimum)
                    THEN "REJECTED" ELSE "NEEDS_REVIEW"

\* The Oracle said APPROVED with a passing safety score and an average below
\* the threshold, and evaluate() returned NEEDS_REVIEW.
C5_Witness ==
    /\ jOutput.verdict = "NEEDS_REVIEW"
    /\ jInput.kind = "json" /\ jInput.verdict = "APPROVED"
    /\ Ge(jOutput.scores.safety, safetyMinimum)
    /\ Lt(jOutput.sum4, 4 * approvalThreshold)

-----------------------------------------------------------------------------
(* C6 *)

\* C6: every proposal that had a file written was judged APPROVED with a
\* safety score of at least safetyMinimum and an average of at least
\* approvalThreshold, and a cycle waits for the planner only with a proposal
\* judged APPROVED.
C6_OnlyApprovedAdvance ==
    /\ \A t \in 1..MaxThreads :
          threads[t].pc = "planning" => threads[t].eval.verdict = "APPROVED"
    /\ \A e \in written :
          /\ e.verdict = "APPROVED"
          /\ Ge(e.scores.safety, safetyMinimum)
          /\ Ge(e.sum4, 4 * approvalThreshold)

-----------------------------------------------------------------------------
(* C7 *)

\* C7: the number of proposals committed within one calendar day never
\* exceeds maxProposalsPerDay.
C7_RateLimit == commitsToday <= maxProposalsPerDay

-----------------------------------------------------------------------------
(* C8 *)

\* The cycles that are inside _processProposal().
InProcessProposal == { t \in 1..MaxThreads : threads[t].pc \in {"judging", "planning"} }

\* C8: at no point are two executions of _processProposal() in flight.
C8_OneAtATime == Cardinality(InProcessProposal) <= 1

-----------------------------------------------------------------------------
(* C10 *)

\* C10: for every proposal id, _processProposal() is started at most once
\* and markProcessed() is called at most once.
C10_AtMostOnce ==
    \A id \in ProposalIds : started[id] <= 1 /\ marks[id] <= 1

-----------------------------------------------------------------------------
(* C11 *)

\* The audit-log event of a processed-state tag.
EventOf(tag) ==
    CASE tag \in {"rejected", "needs_review"} -> "PROPOSAL_JUDGED"
      [] tag = "plan_failed" -> "PLAN_INVALID"
      [] tag = "write_failed" -> "WRITE_FAILED"
      [] tag = "validation_failed" -> "VALIDATION_FAILED"
      [] tag = "commit_failed" -> "COMMIT_FAILED"
      [] tag \in {"committed", "pr_created"} -> "PROPOSAL_COMPLETE"

\* The events that end a run after the judge.
TerminalEvents ==
    { "PLAN_INVALID", "WRITE_FAILED", "VALIDATION_FAILED", "COMMIT_FAILED",
      "PROPOSAL_COMPLETE" }

\* C11: a processed proposal has the audit-log event of its tag, and no
\* event of another terminal outcome: the tag identifies the stage at which
\* its one run ended.
C11_OneTaggedOutcome ==
    \A id \in ProposalIds :
        processed[id] # "none" =>
            /\ [event |-> EventOf(processed[id]), id |-> id] \in log
            /\ \A e \in TerminalEvents :
                  [event |-> e, id |-> id] \in log => e = EventOf(processed[id])

-----------------------------------------------------------------------------
(* C12 *)

\* Cycle t receives the planner's answer and runs _processProposal() to its
\* return.
PlanStep(t) == threads[t].pc = "planning" /\ threads'[t].pc # "planning"

\* C12: a run whose validation fails calls rollback() and not the
\* committer, logs VALIDATION_FAILED and marks the proposal
\* 'validation_failed'; the working tree is then as it was before the run,
\* and the daily counter is unchanged.
C12_ValidationFailedRestores ==
    [][\A t \in 1..MaxThreads :
           (PlanStep(t) /\ lastRun'.validator = "failed")
           => /\ lastRun'.rolledBack
              /\ lastRun'.commit = "none"
              /\ [event |-> "VALIDATION_FAILED", id |-> Current(t)] \in log'
              /\ processed'[Current(t)] = "validation_failed"
              /\ files' = files
              /\ dailyCount' = dailyCount]_vars

-----------------------------------------------------------------------------
(* C13 *)

\* The version-control commands of the committer.
GitSteps == CommitFailures \ { "none", "gh pr create" }

\* What the daemon does with a commit() that returned success=false.
CommitFailureHandled(t) ==
    /\ lastRun'.commit = "fail"
    /\ lastRun'.rolledBack
    /\ appliedChanges' = << >>
    /\ [event |-> "COMMIT_FAILED", id |-> Current(t)] \in log'
    /\ processed'[Current(t)] = "commit_failed"
    /\ dailyCount' = dailyCount
    /\ commitsToday' = commitsToday

\* C13 as stated: when any version-control command of commit() fails,
\* commit() returns success=false, and the daemon rolls back, logs
\* COMMIT_FAILED, marks 'commit_failed' and leaves the daily counter.
C13_AnyGitFailure ==
    [][\A t \in 1..MaxThreads :
           (PlanStep(t) /\ lastRun'.failed \in GitSteps) => CommitFailureHandled(t)]_vars

\* C13 as amended: the same for every version-control command but the
\* deletion of a left-over branch.
C13_GitFailureButBranchDelete ==
    [][\A t \in 1..MaxThreads :
           (PlanStep(t) /\ lastRun'.failed \in GitSteps \ {"git branch -D"})
           => CommitFailureHandled(t)]_vars

\* The push failed, and the proposal is marked 'commit_failed'.
C13_Witness ==
    /\ lastRun.failed = "git push"
    /\ lastRun.commit = "fail"
    /\ lastRun.rolledBack
    /\ \E id \in ProposalIds : processed[id] = "commit_failed"

-----------------------------------------------------------------------------
(* C14 *)

\* C14: a run whose apply() returns an empty applied list leaves the
\* working tree as it was, calls neither the validator nor the committer nor
\* rollback(), logs WRITE_FAILED and marks the proposal 'write_failed'.
C14_NothingAppliedStops ==
    [][\A t \in 1..MaxThreads :
           (PlanStep(t) /\ lastRun'.applyCalled /\ lastRun'.applied = 0)
           => /\ files' = files
              /\ lastRun'.validator = "none"
              /\ lastRun'.commit = "none"
              /\ ~lastRun'.rolledBack
              /\ [event |-> "WRITE_FAILED", id |-> Current(t)] \in log'
              /\ processed'[Current(t)] = "write_failed"
              /\ dailyCount' = dailyCount]_vars

\* apply() was called for a valid plan and applied nothing.
C14_Witness ==
    /\ lastRun.applyCalled
    /\ lastRun.applied = 0
    /\ lastPlan.valid
    /\ \E id \in ProposalIds : processed[id] = "write_failed"

-----------------------------------------------------------------------------
(* C19 *)

\* Cycle t receives the judge's answer.
JudgeStep(t) == threads[t].pc = "judging" /\ threads'[t] # threads[t]

\* C19: when the Oracle call of the judge throws, evaluate() returns
\* REJECTED with all scores 0, avgScore 0 and a summary of the error, and
\* the daemon marks the proposal 'rejected' and writes no file.
C19_JudgeFailsClosed ==
    [][\A t \in 1..MaxThreads :
           (JudgeStep(t) /\ jInput'.kind = "throw")
           => /\ jOutput'.verdict = "REJECTED"
              /\ jOutput'.scores = ZeroScores
              /\ jOutput'.sum4 = Num(0)
              /\ jOutput'.summary = "Evaluation error"
              /\ processed'[Current(t)] = "rejected"
              /\ marks'[Current(t)] = marks[Current(t)] + 1
              /\ threads'[t].pc # "planning"
              /\ files' = files]_vars

\* The Oracle call of the judge threw, and the proposal is marked
\* 'rejected'.
C19_Witness ==
    /\ jInput.kind = "throw"
    /\ jOutput.verdict = "REJECTED"
    /\ \E id \in ProposalIds : processed[id] = "rejected"

-----------------------------------------------------------------------------
(* C15 *)

\* The changes apply() must refuse: no path, a path traversal, a path under
\* a deny-prefix or under no allow-prefix, a content above maxFileSize.
Unwritable(change) ==
    \/ change.filePath = << >>
    \/ IncludesDotDot(change.filePath)
    \/ PathDenied(change.filePath)
    \/ ~PathAllowed(change.filePath)
    \/ ByteLength(change.content) > maxFileSize

\* The positions of the last plan whose change is written as rec says.
ChangesFor(rec) ==
    { i \in 1..Len(lastChanges) :
        /\ lastChanges[i].action = rec.action
        /\ lastChanges[i].filePath = rec.filePath }

\* C15: after apply() of any plan, validated or not, every applied entry
\* comes from a change that is not to be refused, a file that only refused
\* changes name is as it was, every refused change has its error entry, and
\* every change of the plan was attempted: it is applied or has an error.
C15_WriterRefuses ==
    (wPhase = "applied" /\ Len(lastChanges) > 0) =>
        /\ \A k \in 1..Len(lastApply.applied) :
              \E i \in ChangesFor(lastApply.applied[k]) : ~Unwritable(lastChanges[i])
        /\ \A p \in TreePaths :
              (\A i \in 1..Len(lastChanges) :
                   Resolve(lastChanges[i].filePath) = p => Unwritable(lastChanges[i]))
                 => files[p] = preRun[p]
        /\ Len(lastApply.errors)
             >= Cardinality({ i \in 1..Len(lastChanges) : Unwritable(lastChanges[i]) })
        /\ Len(lastApply.applied) + Len(lastApply.errors) = Len(lastChanges)

\* apply() refused the first change of a plan and applied the second.
C15_Witness ==
    /\ wPhase = "applied"
    /\ Len(lastChanges) = 2
    /\ Unwritable(lastChanges[1])
    /\ ~Unwritable(lastChanges[2])
    /\ Len(lastApply.errors) = 1
    /\ Len(lastApply.applied) = 1
    /\ files[Resolve(lastChanges[2].filePath)] = lastChanges[2].content

-----------------------------------------------------------------------------
(* C16 *)

\* C16: after apply() of a plan the planner finds valid, no file whose
\* location under the project root lies below a deny-prefix has been created
\* or overwritten.
C16_DenyOnRealLocation ==
    (wPhase = "applied" /\ Plan([kind |-> "json", changes |-> lastChanges]).valid) =>
        \A p \in TreePaths : PathDenied(p) => files[p] = preRun[p]

-----------------------------------------------------------------------------
(* C17 *)

\* The files the last apply() wrote by a 'create' though they existed.
CreatedOverExisting ==
    { Resolve(lastApply.applied[k].filePath) :
        k \in { j \in 1..Len(lastApply.applied) :
                  /\ lastApply.applied[j].action = "create"
                  /\ preRun[Resolve(lastApply.applied[j].filePath)] # Absent } }

\* C17: a 'create' of a file that exists has the file copied to the backup
\* directory before it is overwritten, and rollback() gives the file its
\* pre-run content back.
C17_CreateOnExistingRestored ==
    /\ wPhase = "applied" => \A p \in CreatedOverExisting : backups[p] # Absent
    /\ wPhase = "rolledBack" => \A p \in CreatedOverExisting : files[p] = preRun[p]

-----------------------------------------------------------------------------
(* C18 *)

\* C18: every rollback() leaves the applied list empty, and a rollback()
\* that finds it empty changes no file and returns rolled=0 and
\* success=true.
C18_RollbackIdempotent ==
    [][wPhase' = "rolledBack" =>
          /\ appliedChanges' = << >>
          /\ appliedChanges = << >> =>
                /\ files' = files
                /\ lastRollback'.rolled = 0
                /\ lastRollback'.success]_vars

\* A second rollback() in a row: the apply() before applied changes, and
\* the last rollback() restored nothing and reported no error.
C18_Witness ==
    /\ wPhase = "rolledBack"
    /\ Len(lastApply.applied) > 0
    /\ lastRollback.rolled = 0
    /\ lastRollback.success
    /\ appliedChanges = << >>

-----------------------------------------------------------------------------
(* C9 *)

\* C9: once markProcessed() was called for an id, no later collect() returns
\* a proposal with that id, also when the collector was created anew from
\* the processed-state file in between.
C9_MarkedNeverCollected == ~returnedMarked

-----------------------------------------------------------------------------
(* C20 *)

validVerdicts == { "APPROVED", "REJECTED", "NEEDS_REVIEW" }

\* C20 as stated: for a response that cannot be parsed, and for one that
\* parses with a missing or unrecognized verdict, the verdict before the
\* overrides is NEEDS_REVIEW.
C20_UnparsedNeedsReview ==
    (/\ jOutput # NoEvaluation
     /\ \/ jInput.kind = "garbage"
        \/ jInput.kind = "json" /\ jInput.verdict \notin validVerdicts)
        => ParseEvaluation(jInput).verdict = "NEEDS_REVIEW"

\* C20 as amended: a response that parses with a missing or unrecognized
\* verdict has the verdict NEEDS_REVIEW before the overrides, so evaluate()
\* returns NEEDS_REVIEW, or REJECTED when the safety gate applies; a response
\* that cannot be parsed is REJECTED with all scores 0.
C20_UnrecognizedNeedsReview ==
    jOutput # NoEvaluation =>
        /\ (jInput.kind = "json" /\ jInput.verdict \notin validVerdicts)
              => /\ ParseEvaluation(jInput).verdict = "NEEDS_REVIEW"
                 /\ jOutput.verdict = IF Lt(jOutput.scores.safety, safetyMinimum)
                                      THEN "REJECTED" ELSE "NEEDS_REVIEW"
        /\ jInput.kind = "garbage"
              => /\ ParseEvaluation(jInput) = FailedEvaluation("Parse error")
                 /\ jOutput.verdict = "REJECTED"
                 /\ jOutput.scores = ZeroScores
                 /\ jOutput.sum4 = Num(0)

\* The Oracle answered an unrecognized verdict with a passing safety score,
\* and evaluate() returned NEEDS_REVIEW.
C20_Witness ==
    /\ jInput.kind = "json"
    /\ jInput.verdict = "MAYBE"
    /\ Ge(jOutput.scores.safety, safetyMinimum)
    /\ jOutput.verdict = "NEEDS_REVIEW"

-----------------------------------------------------------------------------
(* C21 *)

\* C21: plan() returns valid=true only for an answer whose plan has a
\* changes array of 1 to 10 changes; a plan with no changes array, zero
\* changes or more than 10 changes is invalid, and for n > 10 changes the
\* errors list contains 'Too many changes (n). Maximum is 10 per proposal.'.
C21_ChangeCountBound ==
    pOutput # NoPlanResult =>
        /\ pOutput.valid =>
              (pInput.kind = "json" /\ Len(pInput.changes) \in 1..maxChanges)
        /\ pInput.kind = "nochanges" =>
              (~pOutput.valid /\ pOutput.errors = <<"Plan has no changes array">>)
        /\ (pInput.kind = "json" /\ Len(pInput.changes) = 0) =>
              (~pOutput.valid /\ pOutput.errors = <<"Plan has zero changes">>)
        /\ (pInput.kind = "json" /\ Len(pInput.changes) > maxChanges) =>
              /\ ~pOutput.valid
              /\ \E i \in 1..Len(pOutput.errors) :
                    pOutput.errors[i] = TooManyChanges(Len(pInput.changes))

\* plan() has refused a plan of 12 changes that are each acceptable.
C21_Witness ==
    /\ pInput.kind = "json"
    /\ Len(pInput.changes) = maxChanges + 2
    /\ ~pOutput.valid
    /\ pOutput.errors = <<"Too many changes (12). Maximum is 10 per proposal.">>

-----------------------------------------------------------------------------
(* C22 *)

\* C22: while the daemon is stopped (stop() called, start() not called
\* again) no cycle and no proposal begins; stop() itself changes no cycle
\* that is under way; and a proposal that is in progress while the daemon is
\* stopped goes on to the planner or ends marked processed with its outcome
\* logged, after which its cycle returns without starting another proposal.
C22_StopLetsProposalFinish ==
    [][/\ ~running' =>
             /\ started' = started
             /\ \A t \in 1..MaxThreads : threads[t].pc = "idle" => threads'[t].pc = "idle"
       /\ (running /\ ~running') =>
             (threads' = threads /\ processed' = processed /\ files' = files)
       /\ \A t \in 1..MaxThreads :
             (/\ ~running
              /\ ~running'
              /\ threads[t].pc \in {"judging", "planning"}
              /\ threads'[t] # threads[t])
             => \/ /\ threads[t].pc = "judging"
                   /\ threads'[t].pc = "planning"
                   /\ threads'[t].idx = threads[t].idx
                \/ /\ threads'[t].pc = "idle"
                   /\ processed'[Current(t)] # "none"
                   /\ [event |-> EventOf(processed'[Current(t)]), id |-> Current(t)] \in log']_vars

\* A proposal was committed by a run whose plan arrived after stop().
C22_Witness ==
    /\ ~running
    /\ lastRun.stopped
    /\ lastRun.commit = "success"
    /\ \E id \in ProposalIds : processed[id] \in {"committed", "pr_created"}
    /\ \A t \in 1..MaxThreads : threads[t].pc = "idle"

-----------------------------------------------------------------------------
(* C23 *)

\* C23: when the daemon is stopped and no start() is still awaiting its
\* first cycle, neither an interval timer nor a midnight timeout is armed.
C23_StopClearsTimers ==
    (~running /\ \A t \in 1..MaxThreads : ~threads[t].fromStart)
    => (intervalTimers = {} /\ resetTimers = {})

-----------------------------------------------------------------------------
(* C24 *)

\* C24: a proposal whose PROPOSAL_COMPLETE is in the audit log has a record
\* in the processed-state file.
C24_PersistedBeforeFinished ==
    \A id \in ProposalIds :
        [event |-> "PROPOSAL_COMPLETE", id |-> id] \in log => processedFile[id] # "none"

-----------------------------------------------------------------------------
(* C25 *)

\* The timestamps of batch b never increase.
NewestFirst(b) == \A i, j \in 1..Len(b) : i < j => b[i].ts >= b[j].ts

\* Proposal p is not processed and not older than maxAge.
Fresh(p) == processed[p.id] = "none" /\ p.ts > now - maxAgeDays

Returned(b, p) == \E i \in 1..Len(b) : b[i].id = p.id

\* C25: the batch collect() returns has at most maxPerCycle proposals, all
\* fresh, in descending order of timestamp, and no fresh proposal of the
\* local queue that it leaves out is newer than one it returns.
C25_NewestFirstBounded ==
    [][lastBatch' # lastBatch =>
           /\ Len(lastBatch') <= maxPerCycle
           /\ \A i \in 1..Len(lastBatch') : Fresh(lastBatch'[i])
           /\ NewestFirst(lastBatch')
           /\ LET local == ReadLocalProposals(queue) IN
              \A k \in 1..Len(local) :
                 (Fresh(local[k]) /\ ~Returned(lastBatch', local[k]))
                 => \A i \in 1..Len(lastBatch') : lastBatch'[i].ts >= local[k].ts]_vars

-----------------------------------------------------------------------------
(* C26 *)

\* C26: collect() never throws; a collect() whose issue fetch failed
\* returns the first maxPerCycle fresh proposals of the local queue and
\* marks nothing processed; and the collect() after it, when its fetch
\* succeeds, returns the issue that is still fresh.
C26_SourceFailureIsolated ==
    [][/\ lastFetch' # "threw"
       /\ lastFetch' = "failed" =>
             /\ lastBatch' = Take(SelectSeq(ReadLocalProposals(queue), Fresh), maxPerCycle)
             /\ processed' = processed
             /\ processedFile' = processedFile
             /\ marks' = marks
             /\ queue' = queue
       /\ (lastFetch = "failed" /\ lastFetch' = "ok" /\ Fresh(GitHubIssues[1]))
             => Returned(lastBatch', GitHubIssues[1])]_vars

\* The issue fetch failed, and collect() returned a local proposal.
C26_Witness ==
    /\ lastFetch = "failed"
    /\ Len(lastBatch) > 0
    /\ \A i \in 1..Len(lastBatch) : lastBatch[i].id # GitHubIssues[1].id
    /\ processed[GitHubIssues[1].id] = "none"

-----------------------------------------------------------------------------
(* C27 *)

\* C27: addProposal() appends its entry to the queue and changes no cycle,
\* batch, proposal in progress, processed record or file of the working
\* tree; and a collect() returns every fresh proposal of the queue unless
\* its batch is full.
C27_AddDuringCycle ==
    [][/\ queue' # queue =>
             /\ threads' = threads
             /\ processed' = processed
             /\ processedFile' = processedFile
             /\ files' = files
             /\ dailyCount' = dailyCount
             /\ log' = log
             /\ Len(queue') = Len(queue) + 1
             /\ SubSeq(queue', 1, Len(queue)) = queue
             /\ queue'[Len(queue')].ts = now
       /\ \A t \in 1..MaxThreads :
             (threads[t].pc = "collecting" /\ threads'[t].pc = "judging")
             => LET local == ReadLocalProposals(queue) IN
                \A k \in 1..Len(local) :
                   (Fresh(local[k]) /\ ~Returned(threads'[t].batch, local[k]))
                   => Len(threads'[t].batch) = maxPerCycle]_vars

\* A proposal of a cycle is in progress, and the queue holds a fresh
\* proposal that was added after the cycle collected its batch.
C27_Witness ==
    \E t \in 1..MaxThreads :
        /\ threads[t].pc \in {"judging", "planning"}
        /\ Len(threads[t].batch) < maxPerCycle
        /\ \E k \in 1..Len(queue) :
              Fresh(queue[k]) /\ ~Returned(threads[t].batch, queue[k])

-----------------------------------------------------------------------------
(* C28 *)

\* Sequence a is the start of sequence b.
IsPrefix(a, b) == Len(a) <= Len(b) /\ SubSeq(b, 1, Len(a)) = a

\* C28: whatever the local proposals file holds, a step that changes it
\* keeps every entry stored in it, unchanged and in place, and adds one
\* entry at the end.
C28_QueueAppendOnly ==
    [][queue' # queue =>
           /\ IsPrefix(Entries(queue), Entries(queue'))
           /\ Len(Entries(queue')) = Len(Entries(queue)) + 1]_vars

-----------------------------------------------------------------------------
(* C29 *)

\* C29: after a run that called commit() in pull-request mode, whether
\* commit() succeeded or a command of it failed, the branch checked out in
\* the repository is the base branch.
C29_BackOnBaseBranch ==
    [][\A t \in 1..MaxThreads :
           (PlanStep(t) /\ lastRun'.commit # "none" /\ ~directCommit)
           => branch' = "base"]_vars

-----------------------------------------------------------------------------
(* C30 *)

\* C30: in pull-request mode, when the branch is pushed and gh pr create
\* fails, commit() returns success=true with the branch name and the commit
\* hash and without a PR URL, and the daemon does not roll back, increments
\* the daily counter, marks the proposal 'committed' and logs
\* PROPOSAL_COMPLETE.
C30_PushedWithoutPR ==
    [][\A t \in 1..MaxThreads :
           (PlanStep(t) /\ lastRun'.failed = "gh pr create")
           => /\ ~directCommit
              /\ lastRun'.commit = "success"
              /\ lastRun'.returned = [success |-> TRUE, branch |-> "feature",
                                      commitHash |-> TRUE, prUrl |-> FALSE]
              /\ ~lastRun'.rolledBack
              /\ Len(appliedChanges') = lastRun'.applied
              /\ dailyCount' = dailyCount + 1
              /\ processed'[Current(t)] = "committed"
              /\ [event |-> "PROPOSAL_COMPLETE", id |-> Current(t)] \in log']_vars

\* The pull request could not be opened, and the proposal is committed.
C30_Witness ==
    /\ ~directCommit
    /\ lastRun.failed = "gh pr create"
    /\ lastRun.commit = "success"
    /\ ~lastRun.returned.prUrl
    /\ dailyCount = 1
    /\ \E id \in ProposalIds : processed[id] = "committed"

-----------------------------------------------------------------------------
(* C31 *)

\* The changes of vInput whose file is a .js or .mjs file.
JsChanges == { i \in 1..Len(vInput.changes) : EndsWithJs(vInput.changes[i].filePath) }

\* C31: the report of validate() has one syntax check for every changed .js
\* or .mjs file, one import check for every entry point and the test suite
\* when it is enabled, each with the result of its check, whatever the
\* results of the others; and passed is the conjunction of the passed flags
\* of the checks.
C31_AllChecksRun ==
    vOutput # NoReport =>
        LET checks == vOutput.checks IN
        /\ Len(checks) = Cardinality(JsChanges) + Len(entryPoints)
                          + (IF vInput.runTests THEN 1 ELSE 0)
        /\ \A i \in JsChanges : \E k \in 1..Len(checks) :
              checks[k] = Check("syntax", vInput.changes[i].filePath, vInput.syntaxOk[i])
        /\ \A e \in 1..Len(entryPoints) : \E k \in 1..Len(checks) :
              checks[k] = Check("imports", entryPoints[e], vInput.importOk[e])
        /\ vInput.runTests =>
              checks[Len(checks)] = Check("test-suite", << >>, vInput.testsOk)
        /\ vOutput.passed = (\A k \in 1..Len(checks) : checks[k].passed)

\* The first syntax check failed, and the report still holds the checks
\* after it.
C31_Witness ==
    /\ Len(vOutput.checks) = 5
    /\ ~vOutput.checks[1].passed
    /\ vOutput.checks[5].passed
    /\ ~vOutput.passed

-----------------------------------------------------------------------------
(* C32 *)

\* C32: the state of the survival manager changes only when the zone of
\* the new state has been observed by hysteresisThreshold calls of
\* updateVitalSigns() in a row.
C32_Hysteresis ==
    [][state' # state => streak' >= hysteresisThreshold]_vars

-----------------------------------------------------------------------------
(* C33 *)

\* A callback of the interval timer, or a start() of a running daemon: the
\* only events that leave the running flag, the clock, the inbox and the
\* log as they are.
TickStep ==
    /\ events' # events
    /\ running' = running
    /\ now' = now
    /\ queue' = queue
    /\ log' = log

\* C33: a timer tick that finds the daily counter at maxProposalsPerDay
\* starts no cycle: nothing waits for collect(), no proposal is started,
\* judged or marked and the processed-state store and the working tree stay
\* as they are; and a step of a cycle after which the counter is at the cap
\* starts no proposal and leaves the later proposals of the batch unmarked.
C33_CapSkipsCycle ==
    [][/\ (TickStep /\ dailyCount >= maxProposalsPerDay) =>
             /\ threads' = threads
             /\ started' = started
             /\ jInput' = jInput
             /\ processed' = processed
             /\ processedFile' = processedFile
             /\ files' = files
       /\ \A t \in 1..MaxThreads :
             (/\ threads[t].pc \in {"judging", "planning"}
              /\ threads'[t] # threads[t]
              /\ dailyCount' >= maxProposalsPerDay)
             => /\ started' = started
                /\ threads'[t].pc = "idle" \/ threads'[t].idx = threads[t].idx
                /\ \A j \in (threads[t].idx + 1)..Len(threads[t].batch) :
                      LET id == threads[t].batch[j].id
                      IN processed'[id] = processed[id] /\ marks'[id] = marks[id]]_vars

\* The first proposal of a batch of two was committed, which took the
\* counter to the cap; the cycle returned without starting the second, and
\* a tick came after that.
C33_Witness ==
    /\ running
    /\ dailyCount >= maxProposalsPerDay
    /\ [event |-> "PROPOSAL_COMPLETE", id |-> GitHubIssues[1].id] \in log
    /\ started[LocalIds[1]] = 0
    /\ processed[LocalIds[1]] = "none"
    /\ \A t \in 1..MaxThreads : threads[t].pc = "idle"
    /\ intervalTimers # {}
    /\ events >= 2
    /\ [event |-> "DAEMON_STOP", id |-> "daemon"] \notin log
    /\ now = 0
    /\ Len(queue) = 1

-----------------------------------------------------------------------------
(* C34 *)

\* The place of an audit event in the pipeline.
Rank(event) ==
    CASE event = "none" -> 0
      [] event = "PROPOSAL_START" -> 1
      [] event = "PROPOSAL_JUDGED" -> 2
      [] event \in {"PLAN_CREATED", "PLAN_INVALID"} -> 3
      [] OTHER -> 4

\* C34: the audit events of a proposal are appended in pipeline order, each
\* later in the pipeline than the last event the log has for the proposal
\* and with the events before it in the log; and when a cycle goes on to the
\* next proposal of its batch, the log has the event of the outcome the
\* proposal before it was marked with.
C34_AuditOrder ==
    [][/\ \A id \in ProposalIds :
             /\ lastLogged'[id] # lastLogged[id] =>
                   /\ Rank(lastLogged'[id]) > Rank(lastLogged[id])
                   /\ Rank(lastLogged'[id]) >= 2 => [event |-> "PROPOSAL_START", id |-> id] \in log'
                   /\ Rank(lastLogged'[id]) >= 3 => [event |-> "PROPOSAL_JUDGED", id |-> id] \in log'
                   /\ Rank(lastLogged'[id]) >= 4 => [event |-> "PLAN_CREATED", id |-> id] \in log'
       /\ \A t \in 1..MaxThreads :
             (/\ threads[t].pc \in {"judging", "planning"}
              /\ threads'[t].pc = "judging"
              /\ threads'[t].idx = threads[t].idx + 1)
             => /\ processed'[Current(t)] # "none"
                /\ [event |-> EventOf(processed'[Current(t)]), id |-> Current(t)] \in log'
                /\ Rank(lastLogged'[Current(t)]) >= 2]_vars

-----------------------------------------------------------------------------
(* C35 *)

\* The last run's apply() reported errors and a list of applied changes
\* that is not empty.
PartialWrite ==
    /\ lastRun.applyCalled
    /\ lastRun.errors > 0
    /\ Len(lastRun.appliedList) > 0

\* C35: a run whose apply() reports errors and a non-empty applied list
\* goes on: validate() is called with exactly the applied list; rollback()
\* is called only when the validation or the commit fails; and when the
\* validation passes commit() is called, and the files it stages are
\* exactly those of the applied list.
C35_PartialWriteProceeds ==
    PartialWrite =>
        /\ lastRun.validator # "none"
        /\ lastRun.validated = lastRun.appliedList
        /\ lastRun.rolledBack <=> (lastRun.validator = "failed" \/ lastRun.commit = "fail")
        /\ lastRun.validator = "failed" => lastRun.commit = "none"
        /\ lastRun.validator = "passed" =>
              /\ lastRun.commit # "none"
              /\ lastRun.staged \in {<< >>, [i \in 1..Len(lastRun.appliedList) |->
                                                lastRun.appliedList[i].filePath]}
              /\ lastRun.commit = "success" => lastRun.staged # << >>

\* A plan of two changes of which the writer applied one was validated,
\* staged and committed.
C35_Witness ==
    /\ PartialWrite
    /\ lastRun.validator = "passed"
    /\ lastRun.commit = "success"
    /\ lastRun.staged = << <<"core", "a.js">> >>
    /\ files[<<"core", "a.js">>] = "v1"

-----------------------------------------------------------------------------
(* C36 *)

\* The files of a list of applied changes.
PathsOf(list) == { Resolve(list[i].filePath) : i \in 1..Len(list) }

\* C36: when a run calls rollback(), for a validation or a commit that
\* failed, the list rollback() goes through is the list apply() returned to
\* that run, which is not empty, and the writer's list is empty after it;
\* every file outside that list is as the run found it; this with cycles
\* that overlap and share the writer.
C36_RollbackTargetsOwnRun ==
    [][\A t \in 1..MaxThreads :
          (PlanStep(t) /\ lastRun'.rolledBack) =>
              /\ lastRun'.validator = "failed" \/ lastRun'.commit = "fail"
              /\ lastRun'.undone = lastRun'.appliedList
              /\ Len(lastRun'.undone) > 0
              /\ appliedChanges' = << >>
              /\ \A p \in DOMAIN files \ PathsOf(lastRun'.undone) :
                    files'[p] = files[p]]_vars

\* A run was rolled back after a run of an overlapping cycle was committed.
C36_Witness ==
    /\ lastRun.rolledBack
    /\ Len(lastRun.undone) > 0
    /\ \E id \in ProposalIds : processed[id] \in {"committed", "pr_created"}
    /\ \E id \in ProposalIds : processed[id] \in {"validation_failed", "commit_failed"}

-----------------------------------------------------------------------------
(* C37 *)

\* C37: a run of _processProposal() that ends without a successful commit
\* leaves the working tree as it found it, every file it wrote restored or
\* removed again, so that between runs the tree holds only what committed
\* runs wrote; this also when rollback() reports errors.
C37_QuiescentTree ==
    [][\A t \in 1..MaxThreads :
          (PlanStep(t) /\ lastRun'.commit # "success") => files' = files]_vars

-----------------------------------------------------------------------------
(* C38 *)

\* A call of start() on a running daemon that has no interval timer armed
\* yet: the only event then that leaves the running flag, the clock, the
\* inbox and the log as they are.
StartWhileRunning ==
    /\ running
    /\ intervalTimers = {}
    /\ TickStep

\* C38: at most one interval timer and at most one midnight timeout are
\* armed at any time, whatever the calls of start() and stop(); and start()
\* on a running daemon begins no cycle, arms no timer and leaves the
\* counter as it is.
C38_SingleTimer ==
    /\ [](Cardinality(intervalTimers) <= 1 /\ Cardinality(resetTimers) <= 1)
    /\ [][StartWhileRunning =>
             /\ threads' = threads
             /\ intervalTimers' = intervalTimers
             /\ resetTimers' = resetTimers
             /\ dailyCount' = dailyCount]_vars

-----------------------------------------------------------------------------
(* C39 *)

-----------------------------------------------------------------------------
(* C40 *)

\* C40: a proposal submitted to the running daemon is collected and given
\* a record in the end.  The clock only goes forward and a record is only
\* given to a proposal that collect() returned, so it has to hold that a
\* submitted proposal without a record is one that the age filter of
\* collect() lets through.
C40_NoStarvation ==
    running =>
        \A k \in 1..Len(ReadLocalProposals(queue)) :
            LET p == ReadLocalProposals(queue)[k]
            IN processed[p.id] = "none" => p.ts > now - maxAgeDays

=============================================================================
